---- MODULE Spec2Model ----
(***************************************************************************)
(* A model of the sandglass repository: the offline SDF builder            *)
(* (generate_sdf), the GPU particle kernels (positionShader,               *)
(* velocityShader) as GPUComputationRenderer evaluates them, the point     *)
(* renderer's texel look-up, and the life cycle of the React effect that   *)
(* owns the animation loop.                                                *)
(*                                                                         *)
(* Numbers are fixed point.  Every group of definitions states its unit.   *)
(***************************************************************************)
EXTENDS Integers, Sequences, FiniteSets, TLC

VARIABLES
    \* ---- SDF builder, one voxel (getSignedDistance) ----
    voxel,          \* the geometric situation of the voxel centre (the queries' answers)
    raycastPath,    \* which raycast the patched Mesh.prototype.raycast dispatches to
    normalsOut,     \* TRUE when the mesh's triangles face out of the cavity
    signedDist,     \* the value getSignedDistance returned, "none" before the call
    pcVoxel,        \* "input" | "done"
    \* ---- SDF builder, the whole script, and the runtime loader ----
    script,         \* which builder script runs: "part_006" | "generate_sdf"
    glb,            \* the model file: "unreadable" | "noInner" | "ok"
    mesh,           \* the inner mesh (its geometry), fixed by the model file
    pcBuild,        \* the script's position
    loopAt,         \* <<x, y, z>> of the running voxel loop
    sdfData,        \* Float32Array sdfData, index -> value ("unset" before written)
    tempData,       \* Float32Array tempData of the smoothing pass
    errorLog,       \* what console.error reported: "none" | "noInner" | "exception"
    exitStatus,     \* -1 while running, then the status the process ended with
    assetFile,      \* sandglass_sdf.json: [written, json]
    loaded,         \* what loadSDFTexture returned: [status, size, min, max, data]
    \* ---- particle integrator (GPUComputationRenderer, 2 variables) ----
    shaderVariant,  \* which velocityShader is compiled: "part_002" | "App"
    gpu,            \* what the GPU does where GLSL leaves it undefined
    sdfVolume,      \* the loaded SDF: [size, min, max, data]
    seed,           \* the seed of the Math.random() sequence of fillPositionTexture
    rotation,       \* scene.rotation.x in quarter turns
    drags,          \* number of mouse drags so far
    texturePosition,\* committed position target: texel -> [xyz, w]
    textureVelocity,\* committed velocity target: texel -> <<vy, vz>>
    nextPosition,   \* the position target being written by a compute pass
    nextVelocity,   \* the velocity target being written by a compute pass
    evaluated,      \* fragments already evaluated in the running compute: <<pass, texel>>
    computing,      \* TRUE while a compute() is between its first fragment and its flip
    tick,           \* number of completed compute() calls
    deltaUniform,   \* the delta uniform of the last tick, ms
    vertexTexel,    \* vertex index -> texel its vertex shader fetched, -1 before a frame
    faulted,        \* texel whose record was made degenerate, -1 when none
    \* ---- the component's effect: mounts, loads, animation frames ----
    sdfFetch,       \* what fetch(SDF_PATH) gives: "ok" | "missing"
    mounts,         \* number of times the effect has run
    canceled,       \* effect run -> its canceled flag
    initAt,         \* effect run -> where its init() is
    gltfAt,         \* effect run -> state of its gltfLoader.load
    sandAt,         \* effect run -> where its generateSandParticles is
    rendererRef,    \* rendererRef.current: 0 for null, else the run that made it
    sceneRef,       \* sceneRef.current, likewise
    cameraRef,      \* cameraRef.current, likewise
    gpuComputeRef,  \* gpuComputeRef.current, likewise
    animationFrameIdRef, \* animationFrameIdRef.current: 0 for null, else a request id
    frameQueue,     \* requested animation frames not yet run: [id, owner]
    nextFrameId,    \* the id the next requestAnimationFrame returns
    variablesReady, \* run -> its GPUComputationRenderer has its two variables
    ticksDone,      \* run -> completed ticks of its GPUComputationRenderer
    particles,      \* run -> its scene holds the Points object
    uniformsSeen,   \* run -> textures its particle material was handed: <<gpu, tick>>
    computes,       \* run -> gpuCompute.compute() calls made by its animate
    frames,         \* run -> renderer.render() calls made by its animate
    \* ---- one call of createSDF(geometry, size) ----
    sizeArg,        \* the size argument
    pcCreate,       \* where the call is: "entry" | "bvh" | "loop" | "returned" | "threw"
    bvhBuilt,       \* new MeshBVH(geometry) has run
    raysCast,       \* rays cast so far
    created,        \* the Float32Array sdfData of the call, <<>> before it exists
    \* ---- the end of the velocity kernel at fine resolution ----
    restIn,         \* the inputs of one fragment: [vel, nearBottom, rand, hits]
    restOut,        \* what the fragment stored: [status, vel, perturbed]
    \* ---- the environment maps of the component ----
    keys,           \* number of key presses handled so far
    envLoads,       \* EXR loads under way: [texture, by], by "init" or "key"
    nextTexture,    \* the id of the next environment map texture
    currentEnvMapRef, \* currentEnvMapRef.current: 0 for null, else a texture
    disposedMaps,   \* the textures dispose() was called on
    environmentMap, \* the const environmentMap of init(): 0 before the await resolves
    modelAt,        \* gltfLoader.load of init(): "none" | "pending" | "loaded"
    meshEnvMap,     \* material.envMap of the glass meshes: 0 while there is no mesh
    animating,      \* init() has called animate()
    lastFrame       \* what the last rendered frame drew the glass with

voxelVars == <<voxel, raycastPath, normalsOut, signedDist, pcVoxel>>

buildVars == <<script, glb, mesh, pcBuild, loopAt, sdfData, tempData, errorLog,
               exitStatus, assetFile, loaded>>

simVars == <<shaderVariant, gpu, sdfVolume, seed, rotation, drags, texturePosition,
             textureVelocity, nextPosition, nextVelocity, evaluated, computing,
             tick, deltaUniform, vertexTexel, faulted>>

appVars == <<sdfFetch, mounts, canceled, initAt, gltfAt, sandAt, rendererRef, sceneRef,
             cameraRef, gpuComputeRef, animationFrameIdRef, frameQueue, nextFrameId,
             variablesReady, ticksDone, particles, uniformsSeen, computes, frames>>

createVars == <<sizeArg, pcCreate, bvhBuilt, raysCast, created>>

restVars == <<restIn, restOut>>

envVars == <<keys, envLoads, nextTexture, currentEnvMapRef, disposedMaps, environmentMap,
             modelAt, meshEnvMap, animating, lastFrame>>

\* the groups every action of the builder, the integrator and the effect leaves alone
otherVars == <<createVars, restVars, envVars>>

vars == <<voxelVars, buildVars, simVars, appVars, otherVars>>

(***************************************************************************)
(* General helpers                                                         *)
(***************************************************************************)
Abs(x) == IF x < 0 THEN -x ELSE x

RECURSIVE SumSeq(_)
SumSeq(s) == IF s = <<>> THEN 0 ELSE Head(s) + SumSeq(Tail(s))

(***************************************************************************)
(* SDF builder: getSignedDistance (src/unnamed/part_006).                  *)
(* Distances are integers in units of BOUNDARY_EPSILON / 2 (5e-6).         *)
(***************************************************************************)

\* CONFIG.BOUNDARY_EPSILON = 1e-5, in distance units
BOUNDARY_EPSILON == 2

\* CONFIG.RAY_DIRECTIONS (14 in the source), the number K of rays per voxel
RAY_DIRECTIONS == 3

\* the largest number of surface crossings one ray meets
MaxCrossings == 3

\* unsigned nearest-surface distances a voxel centre is given
Distances == {1, 4, 9}

\* how much farther than the nearest surface point a ray's first crossing lies
FirstHitExtra == {0, 3}

Axes == {1, 2, 3}

\* The crossings of one ray with the closed mesh, nearest first.  crossing i is
\* at distance first + (i - 1); seen from an outside point the odd crossings
\* enter the cavity, seen from an inside point the even ones do.
Crossings(side, ray) ==
    [i \in 1..ray.n |->
        [distance |-> ray.first + (i - 1),
         entering |-> IF side = "outside" THEN i % 2 = 1 ELSE i % 2 = 0]]

\* tempMesh = new THREE.Mesh(geometry) carries the default material, whose side
\* is FrontSide: a triangle is hit only from the side its normal points to.
FrontFacing(c) == c.entering = normalsOut

\* raycaster.intersectObject(tempMesh, true) with raycaster.firstHitOnly = true.
\* Mesh.prototype.raycast is acceleratedRaycast: with a bounds tree on the
\* geometry it returns the first hit only, without one it falls back to the
\* plain Mesh.raycast, which returns every hit.
intersectObject(side, ray) ==
    LET hits == SelectSeq(Crossings(side, ray), FrontFacing)
    IN  IF raycastPath = "bvhFirstHit" /\ Len(hits) > 1
        THEN <<hits[1]>>
        ELSE hits

\* bvh.closestPointToPoint at point +/- epsilon along one axis, for a surface
\* that is locally the plane through hit.point with unit normal along
\* voxel.axis: the unsigned distance of the shifted point.
ShiftedDistance(vx, axis, shift) ==
    LET s == IF vx.side = "inside" THEN -1 ELSE 1
    IN  IF axis = vx.axis THEN Abs(s * vx.dist + shift) ELSE vx.dist

\* computeGradient: central differences of the unsigned distance.  The common
\* positive factor 1 / (2 * epsilon) is left out; only signs are used below.
computeGradient(vx, epsilon) ==
    [a \in Axes |->
        ShiftedDistance(vx, a, epsilon) - ShiftedDistance(vx, a, -epsilon)]

\* point - hit.point, along the plane's normal
PointToSurface(vx) ==
    LET s == IF vx.side = "inside" THEN -1 ELSE 1
    IN  [a \in Axes |-> IF a = vx.axis THEN s * vx.dist ELSE 0]

Dot3(u, v) == u[1] * v[1] + u[2] * v[2] + u[3] * v[3]

RECURSIVE CountOdd(_)
CountOdd(lens) ==
    IF lens = <<>> THEN 0 ELSE (Head(lens) % 2) + CountOdd(Tail(lens))

\* a signed distance whose magnitude is the average first-hit distance of the rays
getSignedDistanceOfRays(vx) ==
    LET hits == {k \in 1..RAY_DIRECTIONS : vx.rays[k].n > 0}
    IN  IF hits = {} THEN vx.dist
        ELSE (IF vx.side = "inside" THEN -1 ELSE 1) *
             (SumSeq([k \in 1..RAY_DIRECTIONS |->
                         IF k \in hits THEN vx.rays[k].first ELSE 0])
                  \div Cardinality(hits))

\* getSignedDistance.  inCount / validRays > 0.5 and
\* distance < averageFirstHitDistance * 1.1 are compared after clearing the
\* denominators.
getSignedDistance(vx) ==
    LET distance == vx.dist
    IN  IF distance < BOUNDARY_EPSILON
        THEN LET gradient == computeGradient(vx, BOUNDARY_EPSILON)
                 pointToSurface == PointToSurface(vx)
             IN  distance * (IF Dot3(pointToSurface, gradient) < 0 THEN -1 ELSE 1)
        ELSE LET results == [k \in 1..RAY_DIRECTIONS |->
                                intersectObject(vx.side, vx.rays[k])]
                 valid == SelectSeq(results, LAMBDA r : Len(r) > 0)
                 validRays == Len(valid)
                 weightedDistance ==
                     SumSeq([k \in 1..validRays |-> valid[k][1].distance])
                 inCount == CountOdd([k \in 1..validRays |-> Len(valid[k])])
             IN  IF validRays > 0
                 THEN LET isInside ==
                              /\ 2 * inCount > validRays
                              /\ 10 * distance * validRays < 11 * weightedDistance
                      IN  distance * (IF isInside THEN -1 ELSE 1)
                 ELSE distance

\* The rays a closed mesh allows from a point on the given side at the given
\* distance: an odd number of crossings from inside, an even number from
\* outside, none nearer than the nearest surface point.
RaysOf(side, dist) ==
    [n : {c \in 0..MaxCrossings : (c % 2 = 1) <=> (side = "inside")},
     first : {dist + e : e \in FirstHitExtra}]

VoxelInputs ==
    {vx \in [side : {"inside", "outside"},
             dist : Distances,
             axis : Axes,
             rays : UNION {[1..RAY_DIRECTIONS -> RaysOf(sd, d)] :
                              sd \in {"inside", "outside"}, d \in Distances}] :
        /\ \A k \in 1..RAY_DIRECTIONS : vx.rays[k] \in RaysOf(vx.side, vx.dist)
        /\ vx.dist >= BOUNDARY_EPSILON => vx.axis = 1
        /\ vx.dist < BOUNDARY_EPSILON =>
               \A k \in 1..RAY_DIRECTIONS : vx.rays[k] = vx.rays[1]}

\* getSignedDistance at rest (other specifications)
VoxelIdle ==
    /\ voxel = [side |-> "inside"] /\ raycastPath = "bvhFirstHit" /\ normalsOut = TRUE
    /\ signedDist = "none" /\ pcVoxel = "idle"

\* the builder script and the loader at rest (other specifications)
BuildIdle ==
    /\ script = "part_006" /\ glb = "ok" /\ mesh = [u |-> 1] /\ pcBuild = "idle"
    /\ loopAt = <<0, 0, 0>> /\ sdfData = <<>> /\ tempData = <<>>
    /\ errorLog = "none" /\ exitStatus = -1 /\ assetFile = [written |-> FALSE]
    /\ loaded = [status |-> "none"]

\* the integrator before generateSandParticles (other specifications)
SimIdle ==
    /\ shaderVariant = "part_002" /\ gpu = [normalizeZero |-> "nan", nanTexel |-> "nan"]
    /\ sdfVolume = [size |-> 0] /\ seed = 0 /\ rotation = 0 /\ drags = 0
    /\ texturePosition = <<>> /\ textureVelocity = <<>>
    /\ nextPosition = <<>> /\ nextVelocity = <<>>
    /\ evaluated = {} /\ computing = FALSE /\ tick = 0 /\ deltaUniform = 0
    /\ vertexTexel = <<>> /\ faulted = -1

\* no fine-resolution fragment under way (other specifications)
RestIdle == restIn = [vel |-> <<0, 0>>] /\ restOut = [status |-> "idle"]

\* the environment maps before the effect runs (other specifications)
EnvIdle ==
    /\ keys = 0 /\ envLoads = {} /\ nextTexture = 1 /\ currentEnvMapRef = 0
    /\ disposedMaps = {} /\ environmentMap = 0 /\ modelAt = "none" /\ meshEnvMap = 0
    /\ animating = FALSE /\ lastFrame = [envMap |-> 0, disposed |-> FALSE, live |-> 0]

\* no call of createSDF under way (other specifications)
CreateIdle ==
    /\ sizeArg = 1 /\ pcCreate = "idle" /\ bvhBuilt = FALSE /\ raysCast = 0
    /\ created = <<>>
    /\ RestIdle /\ EnvIdle

\* the component before its effect runs (other specifications)
AppIdle ==
    /\ sdfFetch = "ok" /\ mounts = 0
    /\ canceled = <<>> /\ initAt = <<>> /\ gltfAt = <<>> /\ sandAt = <<>>
    /\ rendererRef = 0 /\ sceneRef = 0 /\ cameraRef = 0 /\ gpuComputeRef = 0
    /\ animationFrameIdRef = 0 /\ frameQueue = {} /\ nextFrameId = 1
    /\ variablesReady = <<>> /\ ticksDone = <<>> /\ particles = <<>>
    /\ uniformsSeen = <<>> /\ computes = <<>> /\ frames = <<>>

VoxelInit ==
    /\ BuildIdle
    /\ SimIdle
    /\ AppIdle /\ CreateIdle
    /\ voxel \in VoxelInputs
    /\ raycastPath \in {"bvhFirstHit", "meshRaycast"}
    /\ normalsOut \in BOOLEAN
    /\ signedDist = "none"
    /\ pcVoxel = "input"

\* createSDF's loop body: sdfData[idx] = getSignedDistance(point, ...)
ComputeVoxel ==
    /\ pcVoxel = "input"
    /\ signedDist' = getSignedDistance(voxel)
    /\ pcVoxel' = "done"
    /\ UNCHANGED <<voxel, raycastPath, normalsOut, buildVars, simVars, appVars, otherVars>>

SignNext == ComputeVoxel

SpecSign == VoxelInit /\ [][SignNext]_vars

\* C1: for a closed mesh, a voxel centre strictly inside gets a negative signed
\* distance and one strictly outside a positive one, whatever number of
\* crossings each of the K rays meets.
SignConsistency ==
    pcVoxel = "done" =>
        /\ voxel.side = "inside" => signedDist < 0
        /\ voxel.side = "outside" => signedDist > 0

(***************************************************************************)
(* SDF builder: the script (main, createSDF, smoothing, JSON output) and   *)
(* the runtime loader loadSDFTexture.                                      *)
(*                                                                         *)
(* The inner mesh is a closed two-chamber cavity inside a cubic bounding   *)
(* box: chamber A fills the box below height 2*u*ka, chamber B (when       *)
(* kb < SDF_SIZE) fills it above height 2*u*kb, and the slab between them  *)
(* is outside the mesh.  u is half a voxel edge, in distance units.        *)
(* Stored field values are in fine units (FineScale per distance unit);    *)
(* a Float32Array holds multiples of F32Step fine units.                   *)
(***************************************************************************)

\* CONFIG.SDF_SIZE (128 in the source): the grid is SDF_SIZE^3 voxels
SDF_SIZE == 3

\* fine units per distance unit
FineScale == 16

\* spacing of the values a Float32Array can hold, in fine units
F32Step == 4

NumVoxels == SDF_SIZE * SDF_SIZE * SDF_SIZE

Min2(a, b) == IF a < b THEN a ELSE b

\* round(a / b) for b > 0
RoundDiv(a, b) == (2 * a + b) \div (2 * b)

\* the value a Float32Array element takes when a number is stored into it
Fround(v) == RoundDiv(v, F32Step) * F32Step

\* geometry.computeBoundingBox(): the box of the mesh
boundingBox(m) ==
    [min |-> m.min,
     max |-> [a \in Axes |-> m.min[a] + 2 * m.u * SDF_SIZE]]

\* the ray directions, as axis directions: <<axis, sign>>
Directions ==
    <<(<<1, 1>>), (<<2, 1>>), (<<2, -1>>), (<<1, -1>>), (<<3, 1>>), (<<3, -1>>)>>

\* generateUniformRayDirections(numDirections)[k - 1]
generateUniformRayDirections(k) == Directions[((k - 1) % Len(Directions)) + 1]

\* which part of the box the point lies in; r is the point relative to box.min
ChamberOf(m, r) ==
    IF r[2] < 2 * m.u * m.ka THEN "A"
    ELSE IF m.kb < SDF_SIZE /\ r[2] > 2 * m.u * m.kb THEN "B"
    ELSE "gap"

\* the faces of the mesh as <<axis, distance from the point>>, for the chamber
\* the point is in, or the two faces bounding the gap
FacesNear(m, r) ==
    LET w == 2 * m.u * SDF_SIZE
        a == 2 * m.u * m.ka
        b == 2 * m.u * m.kb
        walls == {<<1, r[1]>>, <<1, w - r[1]>>, <<3, r[3]>>, <<3, w - r[3]>>}
    IN  CASE ChamberOf(m, r) = "A" -> walls \cup {<<2, r[2]>>, <<2, a - r[2]>>}
          [] ChamberOf(m, r) = "B" -> walls \cup {<<2, r[2] - b>>, <<2, w - r[2]>>}
          [] OTHER -> {<<2, r[2] - a>>} \cup
                      (IF m.kb < SDF_SIZE THEN {<<2, b - r[2]>>} ELSE {})

\* bvh.closestPointToPoint(point, hit): the nearest face
closestPointToPoint(m, r) ==
    LET near == CHOOSE f \in FacesNear(m, r) :
                    \A g \in FacesNear(m, r) :
                        f[2] < g[2] \/ (f[2] = g[2] /\ f[1] <= g[1])
    IN  [distance |-> near[2], axis |-> near[1]]

\* the crossings of the ray from the point along direction dir with the mesh
RayCrossings(m, r, dir) ==
    LET w == 2 * m.u * SDF_SIZE
        a == 2 * m.u * m.ka
        b == 2 * m.u * m.kb
        c == ChamberOf(m, r)
        hasB == m.kb < SDF_SIZE
        ahead == IF dir[2] = 1 THEN w - r[dir[1]] ELSE r[dir[1]]
    IN  IF dir[1] # 2
        THEN IF c = "gap" THEN [n |-> 0, first |-> 0] ELSE [n |-> 1, first |-> ahead]
        ELSE CASE c = "A" /\ dir[2] = 1 ->
                      [n |-> IF hasB THEN 3 ELSE 1, first |-> a - r[2]]
               [] c = "A" /\ dir[2] = -1 -> [n |-> 1, first |-> r[2]]
               [] c = "B" /\ dir[2] = 1 -> [n |-> 1, first |-> w - r[2]]
               [] c = "B" /\ dir[2] = -1 -> [n |-> 3, first |-> r[2] - b]
               [] c = "gap" /\ dir[2] = 1 ->
                      [n |-> IF hasB THEN 2 ELSE 0, first |-> b - r[2]]
               [] OTHER -> [n |-> 2, first |-> r[2] - a]

\* the voxel centre of createSDF: min + (x + 0.5) * delta, delta = (max - min) / size
VoxelCentre(m, at) ==
    LET box == boundingBox(m)
        delta == [a \in Axes |-> (box.max[a] - box.min[a]) \div SDF_SIZE]
    IN  [a \in Axes |-> box.min[a] + ((2 * at[a] + 1) * delta[a]) \div 2]

\* what the queries of getSignedDistance answer at a point of the mesh's box
VoxelAt(m, point) ==
    LET r == [a \in Axes |-> point[a] - m.min[a]]
        hit == closestPointToPoint(m, r)
    IN  [side |-> IF ChamberOf(m, r) = "gap" THEN "outside" ELSE "inside",
         dist |-> hit.distance,
         axis |-> hit.axis,
         rays |-> [k \in 1..RAY_DIRECTIONS |->
                      RayCrossings(m, r, generateUniformRayDirections(k))]]

\* getSignedDistance of scripts/generate_sdf.ts: one ray along +X, inside when
\* the number of intersections is odd
getSignedDistanceOneRay(vx) ==
    LET intersects == intersectObject(vx.side, vx.rays[1])
        isInside == Len(intersects) % 2 = 1
    IN  vx.dist * (IF isInside THEN -1 ELSE 1)

\* an index with the z stride of a size^2 grid taken as size
VoxelIndexFlat(at) == at[1] + at[2] * SDF_SIZE + at[3] * SDF_SIZE

\* idx = x + y * size + z * size * size
VoxelIndex(at) == at[1] + at[2] * SDF_SIZE + at[3] * SDF_SIZE * SDF_SIZE

\* the nested for loops over z, y, x (x innermost): the next <<x, y, z>>, or
\* <<0, 0, SDF_SIZE>> when the loops are over
LoopStep(at) ==
    IF at[1] + 1 < SDF_SIZE THEN <<at[1] + 1, at[2], at[3]>>
    ELSE IF at[2] + 1 < SDF_SIZE THEN <<0, at[2] + 1, at[3]>>
    ELSE <<0, 0, at[3] + 1>>

LoopOver(at) == at[3] >= SDF_SIZE

\* generateSmoothingKernel(1.5)[dx + 1][dy + 1][dz + 1] =
\* exp(-(dx^2 + dy^2 + dz^2) / (2 * 1.5^2)), times 1000
generateSmoothingKernel(dx, dy, dz) ==
    <<1000, 801, 641, 513>>[dx * dx + dy * dy + dz * dz + 1]

\* the in-grid neighbours of the 3x3x3 window around a voxel
Window(at) ==
    {n \in [Axes -> -1..SDF_SIZE] :
        /\ \A a \in Axes : n[a] - at[a] \in -1..1
        /\ \A a \in Axes : n[a] >= 0 /\ n[a] < SDF_SIZE}

RECURSIVE SumOver(_, _, _)
SumOver(S, f, acc) ==
    IF S = {} THEN acc
    ELSE LET e == CHOOSE e \in S : TRUE
         IN  SumOver(S \ {e}, f, acc + f[e])

\* a smoothing that divides by the weight of the whole 3x3x3 kernel
SmoothedValueWholeKernel(data, at) ==
    LET weight == [n \in Window(at) |->
                       generateSmoothingKernel(n[1] - at[1], n[2] - at[2], n[3] - at[3])]
        term == [n \in Window(at) |-> data[VoxelIndex(n) + 1] * weight[n]]
    IN  RoundDiv(SumOver(Window(at), term, 0),
                 1000 + 6 * 801 + 12 * 641 + 8 * 513)

\* the smoothing loop body: sum / weightSum over the window, read from data
SmoothedValue(data, at) ==
    LET weight == [n \in Window(at) |->
                       generateSmoothingKernel(n[1] - at[1], n[2] - at[2], n[3] - at[3])]
        term == [n \in Window(at) |-> data[VoxelIndex(n) + 1] * weight[n]]
        sum == SumOver(Window(at), term, 0)
        weightSum == SumOver(Window(at), weight, 0)
    IN  RoundDiv(sum, weightSum)

\* a serialisation that keeps whole distance units only (as toFixed would)
JsonNumberFixed(v) == [kind |-> "number", digits |-> (v \div FineScale) * FineScale]

\* JSON.stringify of a number and JSON.parse of its text: the shortest decimal
\* that reads back as the same double
JsonNumber(v) == [kind |-> "number", digits |-> v]

\* ToNumber of a parsed JSON value (null becomes 0)
ToNumber(j) == IF j.kind = "number" THEN j.digits ELSE 0

\* JSON.stringify(sdfJson), sdfJson = {size, min, max, data: Array.from(sdfData)}
SdfJson(m, data) ==
    LET box == boundingBox(m)
    IN  [size |-> JsonNumber(SDF_SIZE),
         min |-> [a \in Axes |-> JsonNumber(box.min[a])],
         max |-> [a \in Axes |-> JsonNumber(box.max[a])],
         data |-> [i \in 1..Len(data) |-> JsonNumber(data[i])]]

\* loadSDFTexture after response.json(): size, new Float32Array(sdfJson.data),
\* Vector3.fromArray(min), Vector3.fromArray(max)
\* A record without min or max makes fromArray read an element of undefined,
\* which throws; a missing size or data array throws nothing.
ParseSdfJson(json) ==
    IF json.min = <<>> \/ json.max = <<>>
    THEN [status |-> "failed"]
    ELSE [status |-> "loaded",
          size |-> ToNumber(json.size),
          min |-> [a \in Axes |-> ToNumber(json.min[a])],
          max |-> [a \in Axes |-> ToNumber(json.max[a])],
          data |-> [i \in 1..Len(json.data) |-> Fround(ToNumber(json.data[i]))]]

\* the half voxel edges of the meshes tried
HalfEdges == {1, 2, 5}

Meshes ==
    {m \in [u : HalfEdges, ka : 1..SDF_SIZE, kb : 1..SDF_SIZE,
            min : {<<0, 0, 0>>, <<-7, -3, 2>>}] :
        /\ m.ka < m.kb \/ (m.ka = SDF_SIZE /\ m.kb = SDF_SIZE)
        /\ m.min # <<0, 0, 0>> => m.u = 2}

BuildInit ==
    /\ script \in {"part_006", "generate_sdf"}
    /\ glb \in {"unreadable", "noInner", "ok"}
    /\ mesh \in Meshes
    /\ glb # "ok" => mesh = CHOOSE m \in Meshes : TRUE
    /\ raycastPath \in (IF script = "part_006"
                        THEN {"bvhFirstHit", "meshRaycast"}
                        ELSE {"bvhAllHits"})
    /\ normalsOut \in BOOLEAN
    /\ glb # "ok" => normalsOut /\ raycastPath # "meshRaycast"
    /\ pcBuild = "start"
    /\ loopAt = <<0, 0, 0>>
    /\ sdfData = <<>> /\ tempData = <<>>
    /\ errorLog = "none"
    /\ exitStatus = -1
    /\ assetFile = [written |-> FALSE]
    /\ loaded = [status |-> "none"]
    /\ voxel = [side |-> "inside"] /\ signedDist = "none" /\ pcVoxel = "idle"
    /\ SimIdle
    /\ AppIdle /\ CreateIdle

\* the catch block of main: console.error, and process.exit(1) in part_006 only
Catch(what) ==
    /\ errorLog' = what
    /\ exitStatus' = IF script = "part_006" THEN 1 ELSE 0
    /\ pcBuild' = "exited"

\* main: fs.readFileSync and loader.parse; a failure throws into the catch block
ReadModel ==
    /\ pcBuild = "start"
    /\ IF glb = "unreadable"
       THEN Catch("exception")
       ELSE pcBuild' = "traverse" /\ UNCHANGED <<errorLog, exitStatus>>
    /\ UNCHANGED <<script, glb, mesh, loopAt, sdfData, tempData, assetFile, loaded,
                   voxelVars, simVars, appVars, otherVars>>

\* main: scene.traverse looking for the mesh named "inner"; without it part_006
\* throws (caught below), generate_sdf.ts logs and returns.  With it createSDF
\* starts: both Float32Arrays are allocated (zero filled).
FindInner ==
    /\ pcBuild = "traverse"
    /\ IF glb = "noInner"
       THEN /\ IF script = "part_006"
               THEN Catch("noInner")
               ELSE errorLog' = "noInner" /\ exitStatus' = 0 /\ pcBuild' = "exited"
            /\ UNCHANGED <<sdfData, tempData>>
       ELSE /\ pcBuild' = "voxels"
            /\ sdfData' = [i \in 1..NumVoxels |-> 0]
            /\ tempData' = [i \in 1..NumVoxels |-> 0]
            /\ UNCHANGED <<errorLog, exitStatus>>
    /\ UNCHANGED <<script, glb, mesh, loopAt, assetFile, loaded, voxelVars, simVars,
                   appVars, otherVars>>

\* createSDF, first loop body: sdfData[idx] = getSignedDistance(point, ...)
ComputeSDFVoxel ==
    /\ pcBuild = "voxels"
    /\ LET point == VoxelCentre(mesh, loopAt)
           vx == VoxelAt(mesh, point)
           value == IF script = "part_006"
                    THEN getSignedDistance(vx)
                    ELSE getSignedDistanceOneRay(vx)
       IN  sdfData' = [sdfData EXCEPT ![VoxelIndex(loopAt) + 1] =
                           Fround(value * FineScale)]
    /\ IF LoopOver(LoopStep(loopAt))
       THEN /\ loopAt' = <<0, 0, 0>>
            /\ pcBuild' = IF script = "part_006" THEN "smoothing" ELSE "write"
       ELSE loopAt' = LoopStep(loopAt) /\ UNCHANGED pcBuild
    /\ UNCHANGED <<script, glb, mesh, tempData, errorLog, exitStatus, assetFile,
                   loaded, voxelVars, simVars, appVars, otherVars>>

\* createSDF, smoothing loop body: tempData[idx] = sum / weightSum
SmoothVoxel ==
    /\ pcBuild = "smoothing"
    /\ tempData' = [tempData EXCEPT ![VoxelIndex(loopAt) + 1] =
                        Fround(SmoothedValue(sdfData, loopAt))]
    /\ IF LoopOver(LoopStep(loopAt))
       THEN loopAt' = <<0, 0, 0>> /\ pcBuild' = "apply"
       ELSE loopAt' = LoopStep(loopAt) /\ UNCHANGED pcBuild
    /\ UNCHANGED <<script, glb, mesh, sdfData, errorLog, exitStatus, assetFile,
                   loaded, voxelVars, simVars, appVars, otherVars>>

\* createSDF: for (i ...) sdfData[i] = tempData[i]; return sdfData
ApplySmoothing ==
    /\ pcBuild = "apply"
    /\ sdfData' = tempData
    /\ pcBuild' = "write"
    /\ UNCHANGED <<script, glb, mesh, loopAt, tempData, errorLog, exitStatus,
                   assetFile, loaded, voxelVars, simVars, appVars, otherVars>>

\* main: fs.writeFileSync(outputPath, JSON.stringify(sdfJson)); the script ends
WriteAsset ==
    /\ pcBuild = "write"
    /\ assetFile' = [written |-> TRUE, json |-> SdfJson(mesh, sdfData)]
    /\ exitStatus' = 0
    /\ pcBuild' = "exited"
    /\ UNCHANGED <<script, glb, mesh, loopAt, sdfData, tempData, errorLog, loaded,
                   voxelVars, simVars, appVars, otherVars>>

\* loadSDFTexture(SDF_PATH) at run time: fetch, response.ok, response.json()
LoadSDFTexture ==
    /\ pcBuild = "exited"
    /\ loaded.status = "none"
    /\ loaded' = IF assetFile.written
                 THEN ParseSdfJson(assetFile.json)
                 ELSE [status |-> "failed"]
    /\ UNCHANGED <<script, glb, mesh, pcBuild, loopAt, sdfData, tempData, errorLog,
                   exitStatus, assetFile, voxelVars, simVars, appVars, otherVars>>

BuildNext ==
    \/ ReadModel
    \/ FindInner
    \/ ComputeSDFVoxel
    \/ SmoothVoxel
    \/ ApplySmoothing
    \/ WriteAsset
    \/ LoadSDFTexture

SpecBuild == BuildInit /\ [][BuildNext]_vars

\* C5: a model without a mesh named "inner" makes the builder report a
\* descriptive error, end with a failing status and write no asset file.
NoInnerFailsFast ==
    (glb = "noInner" /\ pcBuild = "exited") =>
        /\ errorLog = "noInner"
        /\ exitStatus > 0
        /\ ~assetFile.written

NaN == -1000000000

\* getSDF: "return 1000.0" for a point outside the grid
Far == 1000000

\* the length of a normalised vector
Unit == 1000

\* the computation texture is ComputeSize x ComputeSize (256 x 256 in the source)
ComputeSize == 2

\* number of compute() calls explored
MaxTicks == 3

\* number of mouse drags explored
MaxDrags == 1

Texels == 0..(ComputeSize * ComputeSize - 1)

\* clock.getDelta() of a frame, ms: a fast frame, a 60 Hz frame, a slow frame
Deltas == {8, 16, 100}

IsNaN(a) == a = NaN

\* float division of integers rounds toward zero here (b > 0)
TruncDiv(a, b) == IF a >= 0 THEN a \div b ELSE -((-a) \div b)

FloorDiv(a, b) == IF a >= 0 THEN a \div b ELSE -((-a + b - 1) \div b)

FAdd(a, b) == IF IsNaN(a) \/ IsNaN(b) THEN NaN ELSE a + b

FSub(a, b) == IF IsNaN(a) \/ IsNaN(b) THEN NaN ELSE a - b

\* a * b / d
FMulDiv(a, b, d) == IF IsNaN(a) \/ IsNaN(b) \/ IsNaN(d) THEN NaN ELSE TruncDiv(a * b, d)

FLess(a, b) == ~IsNaN(a) /\ ~IsNaN(b) /\ a < b

FLessEq(a, b) == ~IsNaN(a) /\ ~IsNaN(b) /\ a <= b

FMax(a, b) == IF IsNaN(a) \/ IsNaN(b) THEN NaN ELSE IF a > b THEN a ELSE b

FMin(a, b) == IF IsNaN(a) \/ IsNaN(b) THEN NaN ELSE IF a < b THEN a ELSE b

VecNaN(v) == IsNaN(v[1]) \/ IsNaN(v[2])

VAdd(u, v) == <<FAdd(u[1], v[1]), FAdd(u[2], v[2])>>

VSub(u, v) == <<FSub(u[1], v[1]), FSub(u[2], v[2])>>

\* v * n / d
VScale(v, n, d) == <<FMulDiv(v[1], n, d), FMulDiv(v[2], n, d)>>

\* dot(u, v) where one of the two is a unit vector (length Unit)
VDot(u, v) ==
    IF VecNaN(u) \/ VecNaN(v) THEN NaN
    ELSE TruncDiv(u[1] * v[1] + u[2] * v[2], Unit)

RECURSIVE SqrtBetween(_, _, _)
SqrtBetween(n, lo, hi) ==
    IF lo >= hi THEN lo
    ELSE LET mid == (lo + hi + 1) \div 2
         IN  IF mid * mid <= n THEN SqrtBetween(n, mid, hi)
             ELSE SqrtBetween(n, lo, mid - 1)

\* length(v)
VLength(v) ==
    IF VecNaN(v) THEN NaN
    ELSE LET n == v[1] * v[1] + v[2] * v[2]
         IN  SqrtBetween(n, 0, IF n < 10000 THEN 100
                               ELSE IF n < 4000000 THEN 2000 ELSE 46340)

\* normalize(v): undefined by GLSL for the zero vector; a GPU computes
\* v * inversesqrt(0), which is NaN, or clamps the reciprocal and returns zero
normalize(v) ==
    IF VecNaN(v) THEN <<NaN, NaN>>
    ELSE IF v = <<0, 0>>
         THEN (IF gpu.normalizeZero = "nan" THEN <<NaN, NaN>> ELSE <<0, 0>>)
         ELSE VScale(v, Unit, VLength(v))

\* reflect(v, n) = v - 2 dot(n, v) n
reflect(v, n) == VSub(v, VScale(n, 2 * VDot(n, v), Unit))

Clamp(a, lo, hi) == IF a < lo THEN lo ELSE IF a > hi THEN hi ELSE a

\* (sdfMax - sdfMin), and the size of one texel of the volume along y
SdfExtent == <<sdfVolume.max[1] - sdfVolume.min[1], sdfVolume.max[2] - sdfVolume.min[2]>>

TexelSize == SdfExtent[1] \div sdfVolume.size

\* texture(sdfTexture, uv): LinearFilter and ClampToEdgeWrapping, rel = uv * extent.
\* A NaN coordinate is undefined: the fetch returns NaN or the edge texel.
texture(rel) ==
    IF VecNaN(rel)
    THEN (IF gpu.nanTexel = "nan" THEN NaN ELSE sdfVolume.data[1])
    ELSE LET t == rel[1] - TexelSize \div 2
             j == FloorDiv(t, TexelSize)
             f == t - j * TexelSize
             lo == Clamp(j + 1, 1, sdfVolume.size)
             hi == Clamp(j + 2, 1, sdfVolume.size)
         IN  TruncDiv(sdfVolume.data[lo] * (TexelSize - f) + sdfVolume.data[hi] * f,
                      TexelSize)

\* any(lessThan(sdfUV, vec3(lo))) || any(greaterThan(sdfUV, vec3(hi))), in tenths
OutsideUV(rel, lo, hi) ==
    \E a \in 1..2 : \/ FLess(FMulDiv(rel[a], 10, 1), lo * SdfExtent[a])
                    \/ FLess(hi * SdfExtent[a], FMulDiv(rel[a], 10, 1))

\* positionShader's getSDF
getSDF_position(pos) ==
    LET rel == VSub(pos, sdfVolume.min)
    IN  IF OutsideUV(rel, 0, 10) THEN Far ELSE texture(rel)

\* clamp(sdfUV, vec3(0.0), vec3(1.0))
ClampUV(rel) ==
    <<FMin(FMax(rel[1], 0), SdfExtent[1]), FMin(FMax(rel[2], 0), SdfExtent[2])>>

\* computeNormal's d: central differences, eps = 0.5 / sdfSize
sdfGradient(pos) ==
    LET rel == VSub(pos, sdfVolume.min)
        eps == TexelSize \div 2
        up == texture(VAdd(rel, <<eps, 0>>))
        down == texture(VSub(rel, <<eps, 0>>))
        across == FSub(texture(VAdd(rel, <<0, eps>>)), texture(VSub(rel, <<0, eps>>)))
    IN  <<FSub(up, down), across>>

\* velocityShader's computeNormal: return normalize(d)
computeNormal(pos) == normalize(sdfGradient(pos))

\* the shader constants; the two velocity shaders differ in some of them
COLLISION_DAMPING == 30

FRICTION == IF shaderVariant = "part_002" THEN 98 ELSE 95

PARTICLE_RADIUS == IF shaderVariant = "part_002" THEN 15 ELSE 10

REPULSION_STRENGTH == IF shaderVariant = "part_002" THEN 1500 ELSE 1200

PARTICLE_MASS == IF shaderVariant = "part_002" THEN 500 ELSE 100

MIN_VELOCITY == 1

SDF_THRESHOLD == 20

COLLISION_ITERATIONS == 4

MAX_STEP == 20

GRAVITY_SCALE == 30

BOTTOM_THRESHOLD == 20

BOTTOM_FRICTION == 98

\* rotationMatrix * vec4(gravity, 0.0), gravity = (0, -9.81, 0), the scene
\* turned about x by q quarter turns
rotatedGravity(q) ==
    CASE q = 0 -> <<-9810, 0>>
      [] q = 1 -> <<0, -9810>>
      [] q = 2 -> <<9810, 0>>
      [] q = 3 -> <<0, 9810>>

\* velocityShader's getSDF in part_002: far outside beyond [-0.1, 1.1], else
\* the clamped sample times 0.8
getSDF(pos) ==
    LET rel == VSub(pos, sdfVolume.min)
    IN  IF OutsideUV(rel, -1, 11) THEN Far
        ELSE FMulDiv(texture(ClampUV(rel)), 8, 10)

\* velocityShader's getSDF_Internal in App.tsx
getSDF_Internal(pos) ==
    LET rel == VSub(pos, sdfVolume.min)
    IN  IF OutsideUV(rel, -1, 11) THEN Far ELSE texture(ClampUV(rel))

\* velocityShader's getSDF in App.tsx: the bottom of the grid counts as inside
getSDF_bottom(pos) ==
    LET bottomY == sdfVolume.min[1]
        regularSDF == getSDF_Internal(pos)
        t == FSub(pos[1], bottomY)
    IN  IF FLessEq(pos[1], bottomY) THEN -1000
        ELSE IF FLess(pos[1], bottomY + BOTTOM_THRESHOLD)
             THEN IF IsNaN(regularSDF) THEN NaN
                  ELSE TruncDiv((-Abs(regularSDF)) * (BOTTOM_THRESHOLD - t)
                                    + regularSDF * t, BOTTOM_THRESHOLD)
             ELSE regularSDF

\* the texels the neighbour loops of computeParticleInteraction visit from texel i
NeighbourWindow(i) ==
    LET w == IF shaderVariant = "part_002" THEN 3 ELSE 2
    IN  {k \in Texels :
            /\ k # i
            /\ Abs((k % ComputeSize) - (i % ComputeSize)) <= w
            /\ Abs((k \div ComputeSize) - (i \div ComputeSize)) <= w}

\* the loop body with the viscosity taken from the particle's own velocity
\* instead of the velocity difference
NeighbourForceOwnVelocity(pos, vel, nb, nv) ==
    LET diff == VSub(pos, nb.xyz)
        dist == VLength(diff)
        searchRadius == PARTICLE_RADIUS * (IF shaderVariant = "part_002" THEN 4 ELSE 3)
        influence == LET l == TruncDiv((searchRadius - dist) * Unit, searchRadius)
                     IN  TruncDiv(l * l, Unit)
        push == VScale(VScale(normalize(diff), influence, Unit),
                       REPULSION_STRENGTH, Unit)
    IN  IF shaderVariant = "App" /\ nb.w > 0 THEN <<0, 0>>
        ELSE IF FLess(dist, searchRadius) /\ FLess(0, dist)
             THEN VSub(push, VScale(vel, influence, 10 * Unit))
             ELSE <<0, 0>>

\* one pass of the loop body of computeParticleInteraction: what the neighbour
\* with record nb (position) and nv (velocity) adds to totalForce
NeighbourForce(pos, vel, nb, nv) ==
    LET diff == VSub(pos, nb.xyz)
        dist == VLength(diff)
        searchRadius == PARTICLE_RADIUS * (IF shaderVariant = "part_002" THEN 4 ELSE 3)
        influence == LET l == TruncDiv((searchRadius - dist) * Unit, searchRadius)
                     IN  TruncDiv(l * l, Unit)
        push == VScale(VScale(normalize(diff), influence, Unit),
                       REPULSION_STRENGTH, Unit)
        velDiff == VSub(vel, nv)
    IN  IF shaderVariant = "App" /\ nb.w > 0 THEN <<0, 0>>
        ELSE IF FLess(dist, searchRadius) /\ FLess(0, dist)
             THEN IF shaderVariant = "part_002"
                  THEN VSub(push, VScale(velDiff, influence, 10 * Unit))
                  ELSE push
             ELSE <<0, 0>>

RECURSIVE SumForces(_, _, _, _, _)
SumForces(S, posTex, velTex, i, acc) ==
    IF S = {} THEN acc
    ELSE LET k == CHOOSE k \in S : TRUE
         IN  SumForces(S \ {k}, posTex, velTex, i,
                       VAdd(acc, NeighbourForce(posTex[i].xyz, velTex[i],
                                                posTex[k], velTex[k])))

computeParticleInteraction(posTex, velTex, i) ==
    SumForces(NeighbourWindow(i), posTex, velTex, i, <<0, 0>>)

\* the collision response both shaders apply once normalVel has the sign they
\* test for: reflect, damp, then friction on the tangential part
CollisionResponse(newVel, normal, mirror) ==
    LET reflected == VScale(reflect(newVel, mirror), COLLISION_DAMPING, 100)
        tangentVel == VSub(reflected, VScale(normal, VDot(reflected, normal), Unit))
    IN  VSub(reflected, VScale(tangentVel, 100 - FRICTION, 100))

\* one iteration of the collision loop of part_002; st = [testPos, newVel]
CollisionStep(st, stepTime) ==
    LET nextPos == VAdd(st.testPos,
                        VScale(st.newVel, stepTime, 1000 * COLLISION_ITERATIONS))
        sdf == getSDF(nextPos)
        normal == computeNormal(st.testPos)
        penetration == FAdd(sdf, SDF_THRESHOLD)
        normalVel == VDot(st.newVel, normal)
    IN  IF FLess(-SDF_THRESHOLD, sdf)
        THEN [testPos |-> VAdd(nextPos, VScale(normal, penetration, Unit)),
              newVel |-> IF FLess(normalVel, 0)
                         THEN CollisionResponse(st.newVel, normal, normal)
                         ELSE st.newVel]
        ELSE [testPos |-> nextPos, newVel |-> st.newVel]

\* one iteration of the collision loop of App.tsx
CollisionStepApp(st, stepTime) ==
    LET moved == VAdd(st.testPos, VScale(st.newVel, stepTime, 1000 * COLLISION_ITERATIONS))
        sdf == getSDF_bottom(moved)
        normal == computeNormal(moved)
        normalVel == VDot(st.newVel, normal)
    IN  IF FLessEq(-SDF_THRESHOLD, sdf)
        THEN [testPos |-> VAdd(moved, VScale(normal, FAdd(sdf, SDF_THRESHOLD), Unit)),
              newVel |-> IF FLess(0, normalVel)
                         THEN CollisionResponse(st.newVel, normal, VScale(normal, -1, 1))
                         ELSE st.newVel]
        ELSE [testPos |-> moved, newVel |-> st.newVel]

\* the for loop over the collision iterations (each iteration's result is
\* bound before the next one starts)
RECURSIVE CollisionLoop(_, _, _)
CollisionLoop(st, stepTime, n) ==
    IF n = 0 THEN st
    ELSE CHOOSE result \in
             {CollisionLoop(after, stepTime, n - 1) :
                 after \in {IF shaderVariant = "part_002"
                            THEN CollisionStep(st, stepTime)
                            ELSE CollisionStepApp(st, stepTime)}} : TRUE

\* float adjustedDelta = min(delta, 0.016)
adjustedDelta(dt) == IF dt < 16 THEN dt ELSE 16

\* float speedLimit = MAX_STEP / adjustedDelta
speedLimit(dt) == TruncDiv(MAX_STEP * 1000, adjustedDelta(dt))

\* main of part_002 up to its collision loop: the force, the new velocity, the
\* speed limit
limitedVelocity(posTex, velTex, dt, q, i) ==
    LET totalForce == VAdd(VScale(rotatedGravity(q), GRAVITY_SCALE, 100),
                           computeParticleInteraction(posTex, velTex, i))
        accelerated == VAdd(velTex[i],
                            VScale(totalForce, adjustedDelta(dt), PARTICLE_MASS))
        currentSpeed == VLength(accelerated)
    IN  IF FLess(speedLimit(dt), currentSpeed)
        THEN VScale(accelerated, speedLimit(dt), currentSpeed)
        ELSE accelerated

\* main of the velocity shader of part_002
velocityShader_part_002(posTex, velTex, dt, q, i) ==
    LET pos == posTex[i].xyz
        collided == CHOOSE result \in
                        {CollisionLoop([testPos |-> pos, newVel |-> v],
                                       adjustedDelta(dt), COLLISION_ITERATIONS) :
                            v \in {limitedVelocity(posTex, velTex, dt, q, i)}} : TRUE
    IN  IF FLess(VLength(collided.newVel), MIN_VELOCITY) THEN <<0, 0>>
        ELSE collided.newVel

\* main of App.tsx up to its collision loop: the force, the new velocity, the
\* bottom handling or the friction
dampedVelocity(posTex, velTex, dt, q, i) ==
    LET pos == posTex[i].xyz
        totalForce == VAdd(rotatedGravity(q),
                           computeParticleInteraction(posTex, velTex, i))
        accelerated == VAdd(velTex[i], VScale(totalForce, dt, PARTICLE_MASS))
        nearBottom == FLessEq(pos[1], sdfVolume.min[1] + BOTTOM_THRESHOLD)
    IN  IF nearBottom
        THEN <<FMax(0, accelerated[1]),
               FMulDiv(accelerated[2], BOTTOM_FRICTION, 100)>>
        ELSE VScale(accelerated, FRICTION, 100)

\* main of the velocity shader of App.tsx.  The anti-freeze perturbation
\* (vec2(rand) - 0.5) * 0.0002 is below one velocity unit and adds nothing here.
velocityShader_App(posTex, velTex, dt, q, i) ==
    LET pos == posTex[i].xyz
        isInside == posTex[i].w < 0
        collided == CHOOSE result \in
                        {CollisionLoop([testPos |-> pos, newVel |-> v],
                                       dt, COLLISION_ITERATIONS) :
                            v \in {dampedVelocity(posTex, velTex, dt, q, i)}} : TRUE
    IN  IF ~isInside THEN <<0, 0>>
        ELSE IF /\ FLess(VLength(collided.newVel), MIN_VELOCITY)
                /\ FLess(sdfVolume.min[1] + BOTTOM_THRESHOLD, pos[1])
             THEN <<0, 0>>
             ELSE collided.newVel

velocityShader(posTex, velTex, dt, q, i) ==
    IF shaderVariant = "part_002"
    THEN velocityShader_part_002(posTex, velTex, dt, q, i)
    ELSE velocityShader_App(posTex, velTex, dt, q, i)

\* main of the position shader: newPos = pos + vel * delta, and the tag
positionShader(posTex, velTex, dt, i) ==
    LET newPos == VAdd(posTex[i].xyz, VScale(velTex[i], dt, 1000))
        sdf == getSDF_position(newPos)
    IN  [xyz |-> newPos, w |-> IF FLess(sdf, 0) THEN -1 ELSE 1]

\* seeds of the Math.random() sequence
Seeds == {2, 5}

\* the k-th number Math.random() returns, in hundredths: a value in [0, 1)
Math_random(sd, k) == ((sd + k) * 37 + sd * 11) % 100

\* fillPositionTexture: texel i takes the draws 3i (x), 3i + 1 (y), 3i + 2 (z);
\* y = lerp(center.y, max.y * 0.9, random), z = center.z + (random - 0.5) * range.z * 0.3
fillPositionTexture(vol, sd, i) ==
    LET center == <<(vol.min[1] + vol.max[1]) \div 2, (vol.min[2] + vol.max[2]) \div 2>>
        top == TruncDiv(vol.max[1] * 9, 10)
        range == vol.max[2] - vol.min[2]
        y == center[1] + TruncDiv((top - center[1]) * Math_random(sd, 3 * i + 1), 100)
        z == center[2] + TruncDiv((Math_random(sd, 3 * i + 2) - 50) * range * 3, 1000)
    IN  [xyz |-> <<y, z>>, w |-> 1]

\* the volumes loadSDFTexture may return: a box cavity filling the grid, a
\* cavity whose upper wall lies inside the grid, and a box cavity whose border
\* voxels are within SDF_THRESHOLD of the wall
SdfVolumes ==
    {[size |-> 4, min |-> <<-100, -100>>, max |-> <<100, 100>>, data |-> d] :
        d \in {<<-25, -75, -75, -25>>, <<-25, -75, -40, 40>>}}
    \cup {[size |-> 4, min |-> <<-60, -60>>, max |-> <<60, 60>>,
           data |-> <<-15, -45, -45, -15>>]}

\* what a GPU may do where GLSL leaves the result undefined: normalize of the
\* zero vector, and a texture fetch at a NaN coordinate
GpuBehaviours ==
    {[normalizeZero |-> "zero", nanTexel |-> "edge"],
     [normalizeZero |-> "nan", nanTexel |-> "nan"],
     [normalizeZero |-> "nan", nanTexel |-> "edge"]}

\* scene.rotation.x, in quarter turns
Rotations == 0..2

\* NUM_PARTICLES = 1024 * 1024 with a 256 x 256 computation texture
NUM_PARTICLES == (4 * ComputeSize) * (4 * ComputeSize)

\* generateSandParticles: the uv attribute of vertex i, in units of 1 / ComputeSize
VertexUV(i) == <<i % ComputeSize, i \div ComputeSize>>

\* texture2D(texturePosition, uv) in the vertex shader: NearestFilter and
\* ClampToEdgeWrapping on a ComputeSize x ComputeSize target
TexelOf(uv) ==
    Clamp(uv[1], 0, ComputeSize - 1) + Clamp(uv[2], 0, ComputeSize - 1) * ComputeSize

\* gpuCompute.compute(): every variable is rendered from the current targets of
\* its dependencies into its next target; the targets flip afterwards
compute(posTex, velTex, dt, q) ==
    [position |-> [i \in Texels |-> positionShader(posTex, velTex, dt, i)],
     velocity |-> [i \in Texels |-> velocityShader(posTex, velTex, dt, q, i)]]

SimInit ==
    /\ shaderVariant \in {"part_002", "App"}
    /\ gpu \in GpuBehaviours
    /\ sdfVolume \in SdfVolumes
    /\ seed \in Seeds
    /\ rotation = 0 /\ drags = 0
    /\ texturePosition = [i \in Texels |-> fillPositionTexture(sdfVolume, seed, i)]
    /\ textureVelocity = [i \in Texels |-> <<0, 0>>]
    /\ nextPosition = texturePosition
    /\ nextVelocity = textureVelocity
    /\ evaluated = {} /\ computing = FALSE
    /\ tick = 0 /\ deltaUniform = 0
    /\ vertexTexel = [i \in 0..(NUM_PARTICLES - 1) |-> -1]
    /\ faulted = -1
    /\ VoxelIdle /\ BuildIdle /\ AppIdle /\ CreateIdle

\* one frame of animate with gpuComputeRef set: the uniforms, compute(), then
\* the render of the points from the new current targets
Animate(dt) ==
    /\ tick < MaxTicks /\ ~computing
    /\ \E next \in {compute(texturePosition, textureVelocity, dt, rotation)} :
           /\ texturePosition' = next.position
           /\ textureVelocity' = next.velocity
           /\ nextPosition' = texturePosition
           /\ nextVelocity' = textureVelocity
    /\ tick' = tick + 1
    /\ deltaUniform' = dt
    /\ vertexTexel' = [i \in 0..(NUM_PARTICLES - 1) |-> TexelOf(VertexUV(i))]
    /\ UNCHANGED <<shaderVariant, gpu, sdfVolume, seed, rotation, drags, evaluated,
                   computing, faulted, voxelVars, buildVars, appVars, otherVars>>

\* onMouseMove while dragging: scene.rotation.x changes
MouseMove(q) ==
    /\ drags < MaxDrags /\ ~computing
    /\ q # rotation
    /\ rotation' = q
    /\ drags' = drags + 1
    /\ UNCHANGED <<shaderVariant, gpu, sdfVolume, seed, texturePosition, textureVelocity,
                   nextPosition, nextVelocity, evaluated, computing, tick, deltaUniform,
                   vertexTexel, faulted, voxelVars, buildVars, appVars, otherVars>>

SimNext ==
    \/ \E dt \in Deltas : Animate(dt)
    \/ \E q \in Rotations : MouseMove(q)

SpecSim == SimInit /\ [][SimNext]_vars

\* C2: collision containment: the position committed for a particle that
\* fillPositionTexture placed inside the cavity never has a sampled SDF value
\* above the boundary threshold, after any sequence of ticks.
CollisionContainment ==
    \A i \in Texels :
        FLess(getSDF_position(fillPositionTexture(sdfVolume, seed, i).xyz), 0) =>
            FLessEq(getSDF_position(texturePosition[i].xyz), SDF_THRESHOLD)

\* C3: energy non-explosion: the velocity the velocity kernel stored for every
\* particle is no faster than the maximum speed MAX_STEP / adjustedDelta of the
\* tick that stored it.
SpeedClamped ==
    tick > 0 =>
        \A i \in Texels : FLessEq(VLength(textureVelocity[i]), speedLimit(deltaUniform))

\* C10: one state record per particle: once a frame is drawn, the number of
\* drawn vertices equals the number of simulated texels and no two vertices
\* fetch the same texel.
OneRecordPerParticle ==
    tick > 0 =>
        /\ NUM_PARTICLES = Cardinality(Texels)
        /\ \A i, j \in 0..(NUM_PARTICLES - 1) :
               i # j => vertexTexel[i] # vertexTexel[j]

(***************************************************************************)
(* One compute() fragment by fragment: the position pass, then the         *)
(* velocity pass, each over all texels in any order, then the flip.        *)
(***************************************************************************)

\* the texture a pass reads as texturePosition: the dependency's current target,
\* here the reading of the target being written instead
DependencyPositionInPlace == nextPosition

\* setVariableDependencies and compute(): the sampler texturePosition of a pass
\* is the current render target of the position variable
DependencyPosition == texturePosition

\* likewise the sampler textureVelocity
DependencyVelocity == textureVelocity

Fragments(pass) == {<<pass, i>> : i \in Texels}

\* a freshly filled simulation of the part_002 kernels
KernelInit ==
    /\ SimInit
    /\ shaderVariant = "part_002"
    /\ gpu = [normalizeZero |-> "nan", nanTexel |-> "nan"]
    /\ seed = 5

\* the ticks before the last one, each taken whole
WholeTick == tick < MaxTicks - 1 /\ Animate(100)

\* animate sets the delta uniforms and calls compute()
BeginCompute(dt) ==
    /\ ~computing /\ tick = MaxTicks - 1
    /\ computing' = TRUE
    /\ deltaUniform' = dt
    /\ evaluated' = {}
    /\ UNCHANGED <<shaderVariant, gpu, sdfVolume, seed, rotation, drags, texturePosition,
                   textureVelocity, nextPosition, nextVelocity, tick, vertexTexel,
                   faulted, voxelVars, buildVars, appVars, otherVars>>

\* one fragment of the position pass
EvalPosition(i) ==
    /\ computing /\ <<"position", i>> \notin evaluated
    /\ nextPosition' = [nextPosition EXCEPT ![i] =
           positionShader(DependencyPosition, DependencyVelocity, deltaUniform, i)]
    /\ evaluated' = evaluated \cup {<<"position", i>>}
    /\ UNCHANGED <<shaderVariant, gpu, sdfVolume, seed, rotation, drags, texturePosition,
                   textureVelocity, nextVelocity, computing, tick, deltaUniform,
                   vertexTexel, faulted, voxelVars, buildVars, appVars, otherVars>>

\* one fragment of the velocity pass, which starts when the position pass is over
EvalVelocity(i) ==
    /\ computing /\ Fragments("position") \subseteq evaluated
    /\ <<"velocity", i>> \notin evaluated
    /\ nextVelocity' = [nextVelocity EXCEPT ![i] =
           velocityShader(DependencyPosition, DependencyVelocity, deltaUniform,
                          rotation, i)]
    /\ evaluated' = evaluated \cup {<<"velocity", i>>}
    /\ UNCHANGED <<shaderVariant, gpu, sdfVolume, seed, rotation, drags, texturePosition,
                   textureVelocity, nextPosition, computing, tick, deltaUniform,
                   vertexTexel, faulted, voxelVars, buildVars, appVars, otherVars>>

\* the end of compute(): currentTextureIndex flips
FlipTargets ==
    /\ computing
    /\ Fragments("position") \cup Fragments("velocity") \subseteq evaluated
    /\ texturePosition' = nextPosition
    /\ textureVelocity' = nextVelocity
    /\ nextPosition' = texturePosition
    /\ nextVelocity' = textureVelocity
    /\ computing' = FALSE
    /\ evaluated' = {}
    /\ tick' = tick + 1
    /\ UNCHANGED <<shaderVariant, gpu, sdfVolume, seed, rotation, drags, deltaUniform,
                   vertexTexel, faulted, voxelVars, buildVars, appVars, otherVars>>

KernelNext ==
    \/ WholeTick
    \/ \E dt \in Deltas : BeginCompute(dt)
    \/ \E i \in Texels : EvalPosition(i)
    \/ \E i \in Texels : EvalVelocity(i)
    \/ FlipTargets

SpecKernel == KernelInit /\ [][KernelNext]_vars

\* C8: order independence: when every fragment of a tick has been evaluated,
\* in whatever order, the targets hold what the two kernels compute from the
\* committed position and velocity buffers of the previous tick.
OrderIndependence ==
    (computing /\ Fragments("position") \cup Fragments("velocity") \subseteq evaluated) =>
        /\ nextPosition = compute(texturePosition, textureVelocity, deltaUniform,
                                  rotation).position
        /\ nextVelocity = compute(texturePosition, textureVelocity, deltaUniform,
                                  rotation).velocity

\* C8 witness: a fully evaluated tick that moved a particle and in which two
\* particles in each other's window repel each other
OrderIndependenceWitness ==
    /\ computing /\ Fragments("position") \cup Fragments("velocity") \subseteq evaluated
    /\ \E i \in Texels : nextPosition[i].xyz # texturePosition[i].xyz
    /\ \E i \in Texels : \E k \in NeighbourWindow(i) :
           NeighbourForce(texturePosition[i].xyz, textureVelocity[i],
                          texturePosition[k], textureVelocity[k]) # <<0, 0>>

(***************************************************************************)
(* The integrator with one particle record turned degenerate.              *)
(***************************************************************************)

FaultInit == SimInit /\ seed = 5

\* the stored position or velocity of texel i becomes not a number
Degenerate(i, field) ==
    /\ faulted = -1 /\ ~computing
    /\ faulted' = i
    /\ IF field = "position"
       THEN /\ texturePosition' = [texturePosition EXCEPT ![i].xyz = <<NaN, NaN>>]
            /\ UNCHANGED textureVelocity
       ELSE /\ textureVelocity' = [textureVelocity EXCEPT ![i] = <<NaN, NaN>>]
            /\ UNCHANGED texturePosition
    /\ UNCHANGED <<shaderVariant, gpu, sdfVolume, seed, rotation, drags, nextPosition,
                   nextVelocity, evaluated, computing, tick, deltaUniform, vertexTexel,
                   voxelVars, buildVars, appVars, otherVars>>

FaultNext ==
    \/ \E dt \in Deltas : Animate(dt)
    \/ \E i \in Texels : \E field \in {"position", "velocity"} : Degenerate(i, field)

SpecFault == FaultInit /\ [][FaultNext]_vars

\* C7: a single bad particle does not corrupt others: whatever record became
\* degenerate, the stored position and velocity of every other particle are
\* valid numbers after any number of further ticks.
BadParticleIsolated ==
    \A j \in Texels :
        j # faulted => ~VecNaN(texturePosition[j].xyz) /\ ~VecNaN(textureVelocity[j])

(***************************************************************************)
(* The component's effect: init, the loads it awaits, the animation loop   *)
(* and the cleanup. Each effect run has its own closure (canceled, clock,  *)
(* animate); the refs are shared by all runs.                              *)
(***************************************************************************)

\* how many times the effect may run (mount, unmount, mount again)
MaxMounts == 2

\* frames an animation loop may render
MaxFrames == 2

Runs == 1..MaxMounts

\* animate returning at one of its guards; the queue has lost the running callback
animateReturn(queue) ==
    /\ frameQueue' = queue
    /\ UNCHANGED <<animationFrameIdRef, nextFrameId, ticksDone, uniformsSeen, computes,
                   frames>>

\* animate past its guards: the tick, the hand-over of the targets, render, request
animateFrame(m, queue) ==
    /\ IF gpuComputeRef # 0
       THEN /\ computes' = [computes EXCEPT ![m] = @ + 1]
            /\ ticksDone' = [ticksDone EXCEPT ![gpuComputeRef] =
                                 IF variablesReady[gpuComputeRef] THEN @ + 1 ELSE @]
            /\ uniformsSeen' =
                   IF particles[sceneRef] /\ variablesReady[gpuComputeRef]
                   THEN [uniformsSeen EXCEPT ![sceneRef] =
                            [position |-> <<gpuComputeRef, ticksDone[gpuComputeRef] + 1>>,
                             velocity |-> <<gpuComputeRef, ticksDone[gpuComputeRef] + 1>>]]
                   ELSE uniformsSeen
       ELSE UNCHANGED <<computes, ticksDone, uniformsSeen>>
    /\ frames' = [frames EXCEPT ![m] = @ + 1]
    /\ frameQueue' = queue \cup {[id |-> nextFrameId, owner |-> m]}
    /\ animationFrameIdRef' = nextFrameId
    /\ nextFrameId' = nextFrameId + 1

\* animate without the test of the canceled flag
animateUncancelled(m, queue) ==
    IF rendererRef = 0 \/ sceneRef = 0 \/ cameraRef = 0
    THEN animateReturn(queue)
    ELSE animateFrame(m, queue)

\* const animate = () => { ... } of effect run m
animate(m, queue) ==
    IF canceled[m] THEN animateReturn(queue)
    ELSE IF rendererRef = 0 \/ sceneRef = 0 \/ cameraRef = 0
         THEN animateReturn(queue)
         ELSE animateFrame(m, queue)

AppInit ==
    /\ sdfFetch \in {"ok", "missing"}
    /\ mounts = 0
    /\ canceled = [m \in Runs |-> FALSE]
    /\ initAt = [m \in Runs |-> "idle"]
    /\ gltfAt = [m \in Runs |-> "none"]
    /\ sandAt = [m \in Runs |-> "idle"]
    /\ rendererRef = 0 /\ sceneRef = 0 /\ cameraRef = 0 /\ gpuComputeRef = 0
    /\ animationFrameIdRef = 0 /\ frameQueue = {} /\ nextFrameId = 1
    /\ variablesReady = [m \in Runs |-> FALSE]
    /\ ticksDone = [m \in Runs |-> 0]
    /\ particles = [m \in Runs |-> FALSE]
    /\ uniformsSeen = [m \in Runs |-> [position |-> <<0, 0>>, velocity |-> <<0, 0>>]]
    /\ computes = [m \in Runs |-> 0]
    /\ frames = [m \in Runs |-> 0]
    /\ VoxelIdle /\ BuildIdle /\ SimIdle /\ CreateIdle

\* the effect runs: the guard on rendererRef, then init() up to its first await
Mount(webgl2) ==
    /\ mounts < MaxMounts
    /\ mounts > 0 => canceled[mounts] \/ initAt[mounts] = "skipped"
    /\ mounts' = mounts + 1
    /\ IF rendererRef # 0
       THEN /\ initAt' = [initAt EXCEPT ![mounts + 1] = "skipped"]
            /\ UNCHANGED <<sceneRef, cameraRef, rendererRef>>
       ELSE /\ sceneRef' = mounts + 1
            /\ cameraRef' = mounts + 1
            /\ IF webgl2
               THEN /\ rendererRef' = mounts + 1
                    /\ initAt' = [initAt EXCEPT ![mounts + 1] = "awaitEnv"]
               ELSE /\ UNCHANGED rendererRef
                    /\ initAt' = [initAt EXCEPT ![mounts + 1] = "returned"]
    /\ UNCHANGED <<sdfFetch, canceled, gltfAt, sandAt, gpuComputeRef, animationFrameIdRef,
                   frameQueue, nextFrameId, variablesReady, ticksDone, particles,
                   uniformsSeen, computes, frames, voxelVars, buildVars, simVars, otherVars>>

\* loadEnvironment resolves: init() goes on to gltfLoader.load, the listeners
\* and its call of animate()
EnvLoaded(m) ==
    /\ initAt[m] = "awaitEnv"
    /\ initAt' = [initAt EXCEPT ![m] = "animated"]
    /\ gltfAt' = [gltfAt EXCEPT ![m] = "pending"]
    /\ animate(m, frameQueue)
    /\ UNCHANGED <<sdfFetch, mounts, canceled, sandAt, rendererRef, sceneRef, cameraRef,
                   gpuComputeRef, variablesReady, particles, voxelVars, buildVars,
                   simVars, otherVars>>

\* loadEnvironment rejects: the catch of init() logs
EnvFailed(m) ==
    /\ initAt[m] = "awaitEnv"
    /\ initAt' = [initAt EXCEPT ![m] = "threw"]
    /\ UNCHANGED <<sdfFetch, mounts, canceled, gltfAt, sandAt, rendererRef, sceneRef,
                   cameraRef, gpuComputeRef, animationFrameIdRef, frameQueue, nextFrameId,
                   variablesReady, ticksDone, particles, uniformsSeen, computes, frames,
                   voxelVars, buildVars, simVars, otherVars>>

\* the onLoad callback of gltfLoader.load, and generateSandParticles up to its await
GltfLoaded(m, inner) ==
    /\ gltfAt[m] = "pending"
    /\ gltfAt' = [gltfAt EXCEPT ![m] = "loaded"]
    /\ IF inner
       THEN /\ gpuComputeRef' = m
            /\ sandAt' = [sandAt EXCEPT ![m] = "awaitSDF"]
       ELSE UNCHANGED <<gpuComputeRef, sandAt>>
    /\ UNCHANGED <<sdfFetch, mounts, canceled, initAt, rendererRef, sceneRef, cameraRef,
                   animationFrameIdRef, frameQueue, nextFrameId, variablesReady, ticksDone,
                   particles, uniformsSeen, computes, frames, voxelVars, buildVars,
                   simVars, otherVars>>

\* the onError callback of gltfLoader.load
GltfError(m) ==
    /\ gltfAt[m] = "pending"
    /\ gltfAt' = [gltfAt EXCEPT ![m] = "error"]
    /\ UNCHANGED <<sdfFetch, mounts, canceled, initAt, sandAt, rendererRef, sceneRef,
                   cameraRef, gpuComputeRef, animationFrameIdRef, frameQueue, nextFrameId,
                   variablesReady, ticksDone, particles, uniformsSeen, computes, frames,
                   voxelVars, buildVars, simVars, otherVars>>

\* loadSDFTexture resolves: the variables, gpuCompute.init(), scene.add(particles)
SdfLoaded(m) ==
    /\ sandAt[m] = "awaitSDF" /\ sdfFetch = "ok"
    /\ sandAt' = [sandAt EXCEPT ![m] = "added"]
    /\ variablesReady' = [variablesReady EXCEPT ![m] = TRUE]
    /\ particles' = [particles EXCEPT ![m] = TRUE]
    /\ UNCHANGED <<sdfFetch, mounts, canceled, initAt, gltfAt, rendererRef, sceneRef,
                   cameraRef, gpuComputeRef, animationFrameIdRef, frameQueue, nextFrameId,
                   ticksDone, uniformsSeen, computes, frames, voxelVars, buildVars,
                   simVars, otherVars>>

\* loadSDFTexture throws: generateSandParticles rejects, nobody handles it
SdfFailed(m) ==
    /\ sandAt[m] = "awaitSDF" /\ sdfFetch = "missing"
    /\ sandAt' = [sandAt EXCEPT ![m] = "rejected"]
    /\ UNCHANGED <<sdfFetch, mounts, canceled, initAt, gltfAt, rendererRef, sceneRef,
                   cameraRef, gpuComputeRef, animationFrameIdRef, frameQueue, nextFrameId,
                   variablesReady, ticksDone, particles, uniformsSeen, computes, frames,
                   voxelVars, buildVars, simVars, otherVars>>

\* the browser runs a requested animation frame
FrameCallback(e) ==
    /\ e \in frameQueue
    /\ frames[e.owner] < MaxFrames
    /\ animate(e.owner, frameQueue \ {e})
    /\ UNCHANGED <<sdfFetch, mounts, canceled, initAt, gltfAt, sandAt, rendererRef,
                   sceneRef, cameraRef, gpuComputeRef, variablesReady, particles,
                   voxelVars, buildVars, simVars, otherVars>>

\* a cleanup that sets the flag and clears the refs but cancels no frame
CleanupWithoutCancel ==
    /\ mounts > 0 /\ ~canceled[mounts] /\ initAt[mounts] # "skipped"
    /\ canceled' = [canceled EXCEPT ![mounts] = TRUE]
    /\ rendererRef' = 0 /\ sceneRef' = 0 /\ cameraRef' = 0 /\ gpuComputeRef' = 0
    /\ animationFrameIdRef' = 0
    /\ UNCHANGED <<sdfFetch, mounts, initAt, gltfAt, sandAt, nextFrameId, variablesReady,
                   ticksDone, particles, uniformsSeen, computes, frames, frameQueue,
                   voxelVars, buildVars, simVars, otherVars>>

\* the cleanup the effect returned
Cleanup ==
    /\ mounts > 0 /\ ~canceled[mounts] /\ initAt[mounts] # "skipped"
    /\ canceled' = [canceled EXCEPT ![mounts] = TRUE]
    /\ IF animationFrameIdRef # 0
       THEN /\ frameQueue' = {e \in frameQueue : e.id # animationFrameIdRef}
            /\ animationFrameIdRef' = 0
       ELSE UNCHANGED <<frameQueue, animationFrameIdRef>>
    /\ rendererRef' = 0
    /\ sceneRef' = 0
    /\ cameraRef' = 0
    /\ gpuComputeRef' = 0
    /\ UNCHANGED <<sdfFetch, mounts, initAt, gltfAt, sandAt, nextFrameId, variablesReady,
                   ticksDone, particles, uniformsSeen, computes, frames, voxelVars,
                   buildVars, simVars, otherVars>>

AppNext ==
    \/ \E webgl2 \in BOOLEAN : Mount(webgl2)
    \/ \E m \in Runs : EnvLoaded(m)
    \/ \E m \in Runs : EnvFailed(m)
    \/ \E m \in Runs : \E inner \in BOOLEAN : GltfLoaded(m, inner)
    \/ \E m \in Runs : GltfError(m)
    \/ \E m \in Runs : SdfLoaded(m)
    \/ \E m \in Runs : SdfFailed(m)
    \/ \E e \in frameQueue : FrameCallback(e)
    \/ Cleanup

SpecApp == AppInit /\ [][AppNext]_vars

\* C4: when the SDF asset cannot be loaded the simulation never starts: no
\* particle object is added to any scene and the animation loop executes no
\* gpuCompute.compute().
NoAssetNoSimulation ==
    sdfFetch = "missing" =>
        \A m \in Runs : ~particles[m] /\ computes[m] = 0

\* C9: once the cleanup of an effect run has run, its animate computes no
\* tick, renders no frame and requests no frame, also when its pending load
\* completes or a requested frame runs afterwards; and the particle material
\* is only ever handed the position and velocity targets of one and the same
\* completed tick.
StopIsFinal ==
    [][\A m \in Runs :
          /\ canceled[m] =>
                /\ computes'[m] = computes[m]
                /\ frames'[m] = frames[m]
                /\ {e \in frameQueue' : e.owner = m} \subseteq frameQueue
          /\ uniformsSeen'[m].position = uniformsSeen'[m].velocity
          /\ uniformsSeen'[m].position[1] # 0 =>
                uniformsSeen'[m].position[2] <= ticksDone'[uniformsSeen'[m].position[1]]]_vars

\* C9 witness: the first effect run was cleaned up while its environment map
\* was loading, the component was mounted again, the load of the first run then
\* completed and its init() called animate(), and the second run renders and
\* ticks the GPUComputationRenderer the late load of the first run left in the ref
StopIsFinalWitness ==
    /\ mounts = 2 /\ canceled[1]
    /\ initAt[1] = "animated" /\ gltfAt[1] = "loaded" /\ frames[1] = 0
    /\ ~canceled[2] /\ frames[2] > 0 /\ computes[2] > 0
    /\ gpuComputeRef = 1 /\ ticksDone[1] > 0

(***************************************************************************)
(* The interaction of two particles: texels 0 and 1 hold a pair at a       *)
(* chosen separation, with chosen velocities; one tick is computed.        *)
(***************************************************************************)

\* separations of the pair, inside and at the search radius of both variants,
\* and the coincident pair
PairOffsets ==
    {<<0, 0>>, <<10, 0>>, <<0, -20>>, <<12, 16>>, <<-7, 24>>, <<29, 0>>, <<30, 0>>,
     <<-30, 40>>, <<59, 0>>, <<60, 0>>}

PairVelocities == {<<0, 0>>, <<100, -50>>, <<-80, 30>>}

PairInit ==
    /\ shaderVariant \in {"part_002", "App"}
    /\ gpu = [normalizeZero |-> "nan", nanTexel |-> "nan"]
    /\ sdfVolume = [size |-> 4, min |-> <<-100, -100>>, max |-> <<100, 100>>,
                    data |-> <<-25, -75, -75, -25>>]
    /\ seed = 5 /\ rotation = 0 /\ drags = 0
    /\ \E off \in PairOffsets : \E tag \in {-1, 1} :
           texturePosition =
               [i \in Texels |->
                   IF i = 0 THEN [xyz |-> <<20, 10>>, w |-> -1]
                   ELSE IF i = 1 THEN [xyz |-> <<20 + off[1], 10 + off[2]>>, w |-> tag]
                   ELSE [xyz |-> <<1000 * i, 0>>, w |-> 1]]
    /\ \E v0 \in PairVelocities : \E v1 \in PairVelocities :
           textureVelocity =
               [i \in Texels |-> IF i = 0 THEN v0 ELSE IF i = 1 THEN v1 ELSE <<0, 0>>]
    /\ nextPosition = texturePosition
    /\ nextVelocity = textureVelocity
    /\ evaluated = {} /\ computing = FALSE
    /\ tick = MaxTicks - 1 /\ deltaUniform = 0
    /\ vertexTexel = [i \in 0..(NUM_PARTICLES - 1) |-> -1]
    /\ faulted = -1
    /\ VoxelIdle /\ BuildIdle /\ AppIdle /\ CreateIdle

PairNext == \E dt \in Deltas : Animate(dt)

SpecPair == PairInit /\ [][PairNext]_vars

\* the search radius of computeParticleInteraction
SearchRadius == PARTICLE_RADIUS * (IF shaderVariant = "part_002" THEN 4 ELSE 3)

\* the pairs the claim is about, in the buffers a tick reads: each in the
\* other's window and closer than the search radius
ClosePairs ==
    {pr \in Texels \X Texels :
        /\ pr[1] # pr[2]
        /\ pr[2] \in NeighbourWindow(pr[1]) /\ pr[1] \in NeighbourWindow(pr[2])
        /\ VLength(VSub(nextPosition[pr[1]].xyz, nextPosition[pr[2]].xyz)) < SearchRadius}

\* the force texel i received from texel k in the last tick
PairForce(i, k) ==
    NeighbourForce(nextPosition[i].xyz, nextVelocity[i], nextPosition[k], nextVelocity[k])

\* f is along d, up to the rounding of the three scalings of the unit vector
Along(f, d) == Abs(f[1] * d[2] - f[2] * d[1]) <= 3 * (Abs(d[1]) + Abs(d[2]))

loopEntry(dt, i) ==
    [testPos |-> texturePosition[i].xyz,
     newVel |-> IF shaderVariant = "part_002"
                THEN limitedVelocity(texturePosition, textureVelocity, dt, rotation, i)
                ELSE dampedVelocity(texturePosition, textureVelocity, dt, rotation, i)]

\* the time the loop divides into its sub-steps
loopTime(dt) == IF shaderVariant = "part_002" THEN adjustedDelta(dt) ELSE dt

\* the position sub-step k of the loop samples, k = 0 .. COLLISION_ITERATIONS - 1
sampledPosition(dt, i, k) ==
    LET st == CollisionLoop(loopEntry(dt, i), loopTime(dt), k)
    IN  VAdd(st.testPos, VScale(st.newVel, loopTime(dt), 1000 * COLLISION_ITERATIONS))

\* the sample of the sub-step
sampledSDF(pos) ==
    IF shaderVariant = "part_002" THEN getSDF(pos) ELSE getSDF_bottom(pos)

\* C12: a sub-step whose sampled position is outside the SDF grid, so that the
\* sample is the large positive distance, applies no collision response: the
\* velocity is unchanged and the test position is the sampled position.
OutOfGridNoResponse ==
    \A dt \in Deltas : \A i \in Texels : \A k \in 0..(COLLISION_ITERATIONS - 1) :
        sampledSDF(sampledPosition(dt, i, k)) = Far =>
            LET before == CollisionLoop(loopEntry(dt, i), loopTime(dt), k)
                after == CollisionLoop(loopEntry(dt, i), loopTime(dt), k + 1)
            IN  /\ after.newVel = before.newVel
                /\ after.testPos = sampledPosition(dt, i, k)

\* the point at which sub-step k computes its normal when it responds: testPos
\* before the step in part_002, the sampled position in App.tsx
collisionPoint(dt, i, k) ==
    IF shaderVariant = "part_002"
    THEN CollisionLoop(loopEntry(dt, i), loopTime(dt), k).testPos
    ELSE sampledPosition(dt, i, k)

\* the test of sub-step k that starts the collision response
responds(dt, i, k) ==
    LET sdf == sampledSDF(sampledPosition(dt, i, k))
    IN  IF shaderVariant = "part_002" THEN FLess(-SDF_THRESHOLD, sdf)
        ELSE FLessEq(-SDF_THRESHOLD, sdf)

\* C13: where the central-difference gradient at the collision point is the
\* zero vector the collision response of the sub-step is skipped (velocity and
\* sampled test position kept, both valid numbers), and the velocity the loop
\* ends with is a valid number.
ZeroGradientGuarded ==
    \A dt \in Deltas : \A i \in Texels : \A k \in 0..(COLLISION_ITERATIONS - 1) :
        (responds(dt, i, k) /\ sdfGradient(collisionPoint(dt, i, k)) = <<0, 0>>) =>
            LET before == CollisionLoop(loopEntry(dt, i), loopTime(dt), k)
                after == CollisionLoop(loopEntry(dt, i), loopTime(dt), k + 1)
            IN  /\ after.newVel = before.newVel
                /\ after.testPos = sampledPosition(dt, i, k)
                /\ ~VecNaN(after.testPos)
                /\ ~VecNaN(CollisionLoop(loopEntry(dt, i), loopTime(dt),
                                         COLLISION_ITERATIONS).newVel)

(***************************************************************************)
(* One call createSDF(geometry, size) with a size argument of any sign.    *)
(* The value of a voxel is kept as its sign only.                          *)
(***************************************************************************)

\* the largest size argument tried
MaxSizeArg == 2

\* size * size * size
Cube(n) == n * n * n

CreateInit ==
    /\ sizeArg \in (-1)..MaxSizeArg
    /\ pcCreate = "entry"
    /\ bvhBuilt = FALSE
    /\ raysCast = 0
    /\ created = <<>>
    /\ VoxelIdle /\ BuildIdle /\ SimIdle /\ AppIdle /\ RestIdle /\ EnvIdle

\* new Float32Array(size * size * size), twice: a negative length throws a
\* RangeError out of createSDF; then the bounding box and delta
Allocate ==
    /\ pcCreate = "entry"
    /\ IF Cube(sizeArg) < 0
       THEN pcCreate' = "threw" /\ UNCHANGED created
       ELSE pcCreate' = "bvh" /\ created' = [k \in 1..Cube(sizeArg) |-> 0]
    /\ UNCHANGED <<sizeArg, bvhBuilt, raysCast, voxelVars, buildVars, simVars, appVars,
                   restVars, envVars>>

\* new MeshBVH(geometry), the raycaster, generateUniformRayDirections
BuildBVH ==
    /\ pcCreate = "bvh"
    /\ bvhBuilt' = TRUE
    /\ pcCreate' = "loop"
    /\ UNCHANGED <<sizeArg, raysCast, created, voxelVars, buildVars, simVars, appVars,
                   restVars, envVars>>

\* the next voxel of the loops over z, y, x: the voxels before it hold a sign
NextVoxel == Cardinality({k \in 1..Len(created) : created[k] # 0}) + 1

\* one pass of the loop body: getSignedDistance casts its rays and the value
\* is stored
FillVoxel(sign) ==
    /\ pcCreate = "loop"
    /\ NextVoxel <= Cube(sizeArg)
    /\ created' = [created EXCEPT ![NextVoxel] = sign]
    /\ raysCast' = raysCast + RAY_DIRECTIONS
    /\ UNCHANGED <<sizeArg, pcCreate, bvhBuilt, voxelVars, buildVars, simVars, appVars,
                   restVars, envVars>>

\* the loops are over (at once when size is 0): smoothing, return sdfData
ReturnData ==
    /\ pcCreate = "loop"
    /\ NextVoxel > Cube(sizeArg)
    /\ pcCreate' = "returned"
    /\ UNCHANGED <<sizeArg, bvhBuilt, raysCast, created, voxelVars, buildVars, simVars, appVars,
                   restVars, envVars>>

CreateNext ==
    \/ Allocate
    \/ BuildBVH
    \/ \E sign \in {-1, 1} : FillVoxel(sign)
    \/ ReturnData

SpecCreate == CreateInit /\ [][CreateNext]_vars

\* C14: createSDF with size <= 0 returns an error before any computation: the
\* call never builds the BVH, casts no ray and never returns a data array.
InvalidSizeRejected ==
    sizeArg <= 0 =>
        /\ ~bvhBuilt
        /\ raysCast = 0
        /\ pcCreate # "returned"

(***************************************************************************)
(* loadSDFTexture given an asset file of any content.                      *)
(***************************************************************************)

\* a key the record does not have
JsonUndefined == [kind |-> "undefined", digits |-> 0]

\* the lengths of the data arrays tried, around 2^3
DataLengths == {0, 1, 7, 8, 9}

\* asset files: size 1, 2 or missing, min and max present or missing, and a
\* data array of one of the lengths (a missing array loads like an empty one)
AssetFiles ==
    {[size |-> sz, min |-> lo, max |-> hi,
      data |-> [i \in 1..n |-> JsonNumber(v)]] :
        sz \in {JsonNumber(1), JsonNumber(2), JsonUndefined},
        lo \in {<<>>, [a \in Axes |-> JsonNumber(-8)]},
        hi \in {<<>>, [a \in Axes |-> JsonNumber(8)]},
        n \in DataLengths, v \in {-F32Step, 4 * F32Step}}

\* the record holds size, min, max and exactly size^3 numbers
WellFormed(json) ==
    /\ json.size.kind = "number"
    /\ json.min # <<>> /\ json.max # <<>>
    /\ Len(json.data) = Cube(json.size.digits)

LoadInit ==
    /\ script = "part_006" /\ glb = "ok" /\ mesh = [u |-> 1]
    /\ pcBuild = "exited" /\ loopAt = <<0, 0, 0>>
    /\ sdfData = <<>> /\ tempData = <<>>
    /\ errorLog = "none" /\ exitStatus = 0
    /\ \E json \in AssetFiles : assetFile = [written |-> TRUE, json |-> json]
    /\ loaded = [status |-> "none"]
    /\ VoxelIdle /\ SimIdle /\ AppIdle /\ CreateIdle

LoadNext == LoadSDFTexture

SpecLoad == LoadInit /\ [][LoadNext]_vars

\* C15: a malformed asset is rejected on load: when the record lacks size, min
\* or max or its data array does not hold exactly size^3 numbers, loadSDFTexture
\* fails, so that generateSandParticles never goes on with that volume.
MalformedAssetRejected ==
    (loaded.status # "none" /\ ~WellFormed(assetFile.json)) => loaded.status = "failed"

(***************************************************************************)
(* The tag of the position kernel and the point renderer that reads it.    *)
(***************************************************************************)

\* a freshly filled simulation, stepped by whole frames
TagInit == SimInit /\ seed = 5

TagNext == \E dt \in Deltas : Animate(dt)

SpecTag == TagInit /\ [][TagNext]_vars

\* particleFragmentShader at the centre of a point: discard or the sand colour
particleFragmentShaderNoDiscard(vIsInside) == "sand"

particleFragmentShader(vIsInside) ==
    IF FLessEq(0, vIsInside) THEN "discard" ELSE "sand"

\* particleVertexShader: vIsInside = posData.w of the texel the vertex fetched
vIsInsideOf(i) == texturePosition[vertexTexel[i]].w

\* the vertices of the last render that put a fragment on the screen
Drawn == {i \in 0..(NUM_PARTICLES - 1) :
             vertexTexel[i] # -1 /\ particleFragmentShader(vIsInsideOf(i)) = "sand"}

\* a position with a coordinate beyond the bounding box of the volume
OutsideGrid(pos) ==
    \E a \in 1..2 : FLess(pos[a], sdfVolume.min[a]) \/ FLess(sdfVolume.max[a], pos[a])

\* C16: after every tick the tag stored with a committed position is -1 exactly
\* when the SDF sampled at that position is below 0 and +1 otherwise, positions
\* outside the grid included, and the renderer draws a vertex only when the tag
\* it fetched is -1.
TagMatchesSample ==
    tick > 0 =>
        /\ \A i \in Texels :
               /\ texturePosition[i].w =
                      (IF FLess(getSDF_position(texturePosition[i].xyz), 0) THEN -1 ELSE 1)
               /\ OutsideGrid(texturePosition[i].xyz) => texturePosition[i].w = 1
        /\ \A i \in Drawn : texturePosition[vertexTexel[i]].w = -1

\* C16 witness: after a tick one particle is tagged inside and drawn, and
\* another one, out of the grid, is tagged outside and not drawn
TagMatchesSampleWitness ==
    /\ tick > 0
    /\ \E i \in Drawn : texturePosition[vertexTexel[i]].w = -1
    /\ \E i \in 0..(NUM_PARTICLES - 1) :
           /\ vertexTexel[i] # -1 /\ i \notin Drawn
           /\ OutsideGrid(texturePosition[vertexTexel[i]].xyz)

(***************************************************************************)
(* The fill loop of createSDF and the layout of the data array.            *)
(***************************************************************************)

\* the voxels <<x, y, z>> of the grid
Grid == {<<x, y, z>> : x \in 0..(SDF_SIZE - 1), y \in 0..(SDF_SIZE - 1),
                       z \in 0..(SDF_SIZE - 1)}

\* the element the fill loop stores for a voxel: getSignedDistance at its centre
CentreValue(at) ==
    LET vx == VoxelAt(mesh, VoxelCentre(mesh, at))
    IN  Fround((IF script = "part_006"
                THEN getSignedDistance(vx)
                ELSE getSignedDistanceOneRay(vx)) * FineScale)

\* position of a voxel in the array (1-based), x fastest, then y, then z
RowMajor(at) == at[1] + at[2] * SDF_SIZE + at[3] * SDF_SIZE * SDF_SIZE + 1

\* the array the fill loop leaves
FilledField == [i \in 1..NumVoxels |-> CentreValue(CHOOSE at \in Grid : RowMajor(at) = i)]

\* C17 as stated: the array createSDF returns holds at index x + y*N + z*N*N
\* the value computed for the centre of voxel (x, y, z), every entry having
\* been written exactly once.
FilledExactlyOnce ==
    pcBuild = "write" =>
        \A at \in Grid : sdfData[RowMajor(at)] = CentreValue(at)

\* C17 amended, the state part: while the fill loop runs the entries before the
\* loop position hold the values of their voxel centres and the others are still
\* unwritten; when it is over (and, in part_006, the smoothing loop has read
\* the array) every entry holds the value of its voxel centre;
\* the array returned holds these values (generate_sdf.ts) or, at the same
\* index, their 3x3x3 weighted mean (part_006).
FillLayout ==
    /\ pcBuild = "voxels" =>
           \A at \in Grid :
               sdfData[RowMajor(at)] =
                   (IF RowMajor(at) < RowMajor(loopAt) THEN CentreValue(at) ELSE 0)
    /\ pcBuild = "apply" => sdfData = FilledField
    /\ pcBuild = "write" =>
           /\ Len(sdfData) = NumVoxels
           /\ \E filled \in {sdfData, FilledField} :
                  /\ filled = FilledField
                  /\ \A at \in Grid :
                         sdfData[RowMajor(at)] =
                             (IF script = "part_006"
                              THEN Fround(SmoothedValue(filled, at))
                              ELSE filled[RowMajor(at)])

\* C17 amended, the step part: a step of the fill loop writes one entry, the
\* one of the loop position, which is in range, and moves on to the next index.
FillStep ==
    pcBuild = "voxels" =>
        /\ loopAt \in Grid
        /\ \A i \in 1..NumVoxels : i # RowMajor(loopAt) => sdfData'[i] = sdfData[i]
        /\ sdfData'[RowMajor(loopAt)] = CentreValue(loopAt)
        /\ IF pcBuild' = "voxels"
           THEN RowMajor(loopAt') = RowMajor(loopAt) + 1
           ELSE RowMajor(loopAt) = NumVoxels

\* C17 amended: the fill loop of createSDF writes every one of the N^3 entries
\* exactly once, in index order, entry x + y*N + z*N*N taking the value computed
\* for the centre of voxel (x, y, z); part_006 then replaces each entry once
\* more, by the smoothed value of the same voxel.
FillLoopExactlyOnce == []FillLayout /\ [][FillStep]_vars

\* C17 witness: part_006 returns an array that the smoothing has changed, after
\* a fill loop that stored inside and outside values
FillLoopExactlyOnceWitness ==
    /\ pcBuild = "write" /\ script = "part_006"
    /\ sdfData # FilledField
    /\ \E i, j \in 1..NumVoxels : FilledField[i] < 0 /\ FilledField[j] > 0

(***************************************************************************)
(* The animation loops of successive effect runs.                          *)
(***************************************************************************)

\* the effect runs whose loop can still step: not cancelled, with a frame requested
LiveLoops == {m \in Runs : ~canceled[m] /\ \E e \in frameQueue : e.owner = m}

\* the effect runs whose animate has run in a step
Stepped == {m \in Runs : frames'[m] # frames[m] \/ computes'[m] # computes[m]}

\* one loop, one pending frame
OneLoopLive ==
    /\ Cardinality(LiveLoops) <= 1
    /\ Cardinality(frameQueue) <= 1
    /\ \A e \in frameQueue : ~canceled[e.owner] /\ e.id = animationFrameIdRef

\* a frame is one call of animate, by the one live effect run: one compute at
\* most, one render, and the request of the next frame at its end, the frame
\* that started it being no longer pending
OneTickPerStep ==
    /\ Cardinality(Stepped) <= 1
    /\ \A m \in Stepped :
           /\ ~canceled[m] /\ m = mounts
           /\ frames'[m] = frames[m] + 1
           /\ computes'[m] \in {computes[m], computes[m] + 1}
           /\ frameQueue' = {[id |-> animationFrameIdRef', owner |-> m]}
           /\ frameQueue' \cap frameQueue = {}

\* C18: ticks are strictly sequential: at any time at most one animation loop is
\* live and at most one animation frame is pending, a tick begins only when the
\* previous call of animate (compute, render, request) is over, and mounting,
\* unmounting and remounting never leaves two loops stepping the simulation.
TicksSequential == []OneLoopLive /\ [][OneTickPerStep]_vars

\* C18 witness: the component was mounted, ticked, was unmounted and mounted
\* again, and the loop of the second run has ticked and has a frame pending
TicksSequentialWitness ==
    /\ mounts = 2 /\ canceled[1]
    /\ computes[1] > 0 /\ computes[2] > 0
    /\ LiveLoops = {2}

(***************************************************************************)
(* The vote of one ray of getSignedDistance.                               *)
(***************************************************************************)

\* inCount += intersects.length % 2: ray k adds one to the inside count
RayVote(vx, k) == Len(intersectObject(vx.side, vx.rays[k])) % 2 = 1

\* C19: each ray's vote is the parity of the number of surface crossings along
\* that ray: it votes inside exactly when the count is odd, so a ray crossing
\* the mesh an even, non-zero number of times never votes inside.
VoteIsCrossingParity ==
    (pcVoxel = "done" /\ voxel.dist >= BOUNDARY_EPSILON) =>
        \A k \in 1..RAY_DIRECTIONS :
            RayVote(voxel, k) <=> (voxel.rays[k].n % 2 = 1)

(***************************************************************************)
(* The aggregation of the votes in getSignedDistance.                      *)
(***************************************************************************)

\* the rays that vote inside
InsideVotes(vx) == {k \in 1..RAY_DIRECTIONS : RayVote(vx, k)}

\* the rays with intersects.length > 0
HitRays(vx) ==
    {k \in 1..RAY_DIRECTIONS : Len(intersectObject(vx.side, vx.rays[k])) > 0}

\* weightedDistance: the sum of intersects[0].distance over the rays that hit
FirstHitSum(vx) ==
    SumSeq([k \in 1..RAY_DIRECTIONS |->
               IF k \in HitRays(vx)
               THEN intersectObject(vx.side, vx.rays[k])[1].distance
               ELSE 0])

\* C20: votes are aggregated across all K directions: a voxel is classified
\* inside only when more than half of the K rays vote inside and its unsigned
\* distance is below 1.1 times the average first-hit distance of the rays that
\* hit; a ray that hits nothing counts as a vote for outside.
MajorityOfAllRays ==
    (pcVoxel = "done" /\ voxel.dist >= BOUNDARY_EPSILON /\ signedDist < 0) =>
        /\ 2 * Cardinality(InsideVotes(voxel)) > RAY_DIRECTIONS
        /\ 10 * voxel.dist * Cardinality(HitRays(voxel)) < 11 * FirstHitSum(voxel)

(***************************************************************************)
(* The magnitude of the value getSignedDistance returns.                   *)
(***************************************************************************)

\* C21: before smoothing, the absolute value of the signed distance of a voxel
\* is the unsigned distance of the closest-point query at its centre; the
\* inside/outside decision changes the sign only, in the near-surface gradient
\* branch, the ray-vote branch and the no-ray-hit branch.
MagnitudeIsClosestDistance ==
    pcVoxel = "done" => Abs(signedDist) = voxel.dist

\* C21 witness: the ray-vote branch has returned a negative distance for a voxel
\* whose rays first hit the mesh farther away than its nearest surface point
MagnitudeIsClosestDistanceWitness ==
    /\ pcVoxel = "done" /\ voxel.dist >= BOUNDARY_EPSILON
    /\ signedDist = -voxel.dist
    /\ \A k \in 1..RAY_DIRECTIONS : voxel.rays[k].first > voxel.dist

(***************************************************************************)
(* The smoothing pass of createSDF.                                        *)
(***************************************************************************)

\* the voxels of the grid at most one step away from a voxel along every axis
Neighbours(at) == {n \in Grid : \A a \in Axes : Abs(n[a] - at[a]) <= 1}

\* a step of the smoothing loop: the output of the voxel at the loop position
\* is the kernel-weighted mean of the values its in-grid neighbours have in the
\* first array, and lies between the least and the largest of them; the step
\* writes this one entry of the second array and leaves the first array alone
SmoothingStep ==
    pcBuild = "smoothing" =>
        LET at == loopAt
            w == [n \in Neighbours(at) |->
                      generateSmoothingKernel(n[1] - at[1], n[2] - at[2], n[3] - at[3])]
            t == [n \in Neighbours(at) |-> sdfData[RowMajor(n)] * w[n]]
            out == tempData'[RowMajor(at)]
        IN  /\ sdfData' = sdfData
            /\ \A i \in 1..NumVoxels : i # RowMajor(at) => tempData'[i] = tempData[i]
            /\ out = Fround(RoundDiv(SumOver(Neighbours(at), t, 0),
                                     SumOver(Neighbours(at), w, 0)))
            /\ \E n \in Neighbours(at) : sdfData[RowMajor(n)] <= out
            /\ \E n \in Neighbours(at) : sdfData[RowMajor(n)] >= out
            /\ IF pcBuild' = "smoothing"
               THEN RowMajor(loopAt') = RowMajor(at) + 1
               ELSE RowMajor(at) = NumVoxels

\* C22: the smoothing pass computes every output voxel, border voxels included,
\* as the mean of the pre-smoothing values of its in-grid 3x3x3 neighbours,
\* weighted by the kernel and divided by the sum of the weights used; it never
\* reads a value smoothed in the same pass, so each output lies between the
\* least and the largest of those neighbours (a constant field stays as it is).
SmoothingIsLocalMean == [][SmoothingStep]_vars

\* C22 witness: the pass is over and the corner voxel, with 8 in-grid
\* neighbours, got a value strictly between its least and largest neighbour
SmoothingIsLocalMeanWitness ==
    /\ pcBuild = "apply"
    /\ Cardinality(Neighbours(<<0, 0, 0>>)) = 8
    /\ \E n \in Neighbours(<<0, 0, 0>>) : sdfData[RowMajor(n)] < tempData[1]
    /\ \E n \in Neighbours(<<0, 0, 0>>) : sdfData[RowMajor(n)] > tempData[1]

(***************************************************************************)
(* The displacement of a particle in one tick.                             *)
(***************************************************************************)

\* how far the last tick moved particle i
Displacement(i) == VLength(VSub(texturePosition[i].xyz, nextPosition[i].xyz))

\* C23: the elapsed time is clamped to the maximum step in the position update
\* as in the velocity update, so that however long the frame took no committed
\* position moves more than MAX_STEP in a single tick.
StepBounded ==
    tick > 0 => \A i \in Texels : FLessEq(Displacement(i), MAX_STEP)

(***************************************************************************)
(* The collision response of one sub-step.                                 *)
(***************************************************************************)

\* sub-step k samples a distance of the grid within the boundary threshold, at
\* a collision point with a gradient, all numbers being valid
InThreshold(dt, i, k) ==
    LET sdf == sampledSDF(sampledPosition(dt, i, k))
        d == sdfGradient(collisionPoint(dt, i, k))
    IN  /\ responds(dt, i, k)
        /\ sdf # Far /\ ~IsNaN(sdf)
        /\ ~VecNaN(d) /\ d # <<0, 0>>
        /\ ~VecNaN(CollisionLoop(loopEntry(dt, i), loopTime(dt), k).newVel)

\* C24: in a collision sub-step the velocity is reflected about the surface
\* normal and damped exactly when it moves into the surface, that is when its
\* component along the outward SDF gradient is positive; afterwards that
\* component is not positive and the speed is not larger than before.
ReflectWhenMovingIn ==
    \A dt \in Deltas : \A i \in Texels : \A k \in 0..(COLLISION_ITERATIONS - 1) :
        InThreshold(dt, i, k) =>
            LET d == sdfGradient(collisionPoint(dt, i, k))
                before == CollisionLoop(loopEntry(dt, i), loopTime(dt), k).newVel
                after == CollisionLoop(loopEntry(dt, i), loopTime(dt), k + 1).newVel
            IN  /\ VDot(before, d) <= 0 => after = before
                /\ VDot(before, d) > 0 => after # before
                /\ VDot(after, d) <= 0
                /\ VLength(after) <= VLength(before)

\* C25: the push-back of a collision sub-step moves the test position back
\* toward the cavity interior, by the penetration against the outward SDF
\* gradient, so the SDF value at the test position after the push-back is not
\* larger than the value sampled before it.
PushBackInward ==
    \A dt \in Deltas : \A i \in Texels : \A k \in 0..(COLLISION_ITERATIONS - 1) :
        InThreshold(dt, i, k) =>
            LET sampled == sampledPosition(dt, i, k)
                pushed == CollisionLoop(loopEntry(dt, i), loopTime(dt), k + 1).testPos
            IN  /\ VDot(VSub(pushed, sampled), sdfGradient(collisionPoint(dt, i, k))) <= 0
                /\ FLessEq(sampledSDF(pushed), sampledSDF(sampled))

(***************************************************************************)
(* The velocity a tick advances the positions with.                        *)
(***************************************************************************)

\* C26: the position committed by a tick is the previous position advanced with
\* the velocity computed in that same tick, not with the velocity the previous
\* tick stored.
AdvancedWithNewVelocity ==
    tick > 0 =>
        \A i \in Texels :
            texturePosition[i].xyz =
                VAdd(nextPosition[i].xyz, VScale(textureVelocity[i], deltaUniform, 1000))

\* ---------------------------------------------------------------------
\* The end of the velocity kernel at fine resolution: velocities in
\* millionths, so that speeds below MIN_VELOCITY are told apart.  The
\* fragment's inputs are the velocity after the force was applied, whether
\* pos.y <= sdfMin.y + BOTTOM_THRESHOLD, the value of rand (in hundredths)
\* and, for each pass of the collision loop, the gradient sampled when the
\* SDF is within the threshold (NoHit when it is not).
\* ---------------------------------------------------------------------

\* MIN_VELOCITY in millionths
MIN_VELOCITY_FINE == MIN_VELOCITY * Unit

\* velocities after "vel.xyz + totalForce * (delta / PARTICLE_MASS)"
RestVelocities == {<<0, 0>>, <<0, 500>>, <<0, 2000>>, <<-3000, 1500>>, <<400, -300>>}

\* fract(sin(...) * 43758.5453), in hundredths
RestRands == {0, 50, 99}

\* computeNormal at a sample within the threshold: a wall below, a wall at
\* either side
RestNormals == {<<-Unit, 0>>, <<0, Unit>>, <<0, -Unit>>}

\* a pass whose sample is deeper inside than the threshold
NoHit == <<0, 0>>

RECURSIVE HitSequences(_)
HitSequences(n) ==
    IF n = 0 THEN {<<>>}
    ELSE {Append(h, x) : h \in HitSequences(n - 1), x \in RestNormals \cup {NoHit}}

\* the bottom handling of App.tsx: only an upward velocity, damped sideways,
\* and the perturbation (vec2(rand) - 0.5) * 0.0002 below MIN_VELOCITY
bottomHandling(inp) ==
    IF inp.nearBottom
    THEN LET damped == <<FMax(0, inp.vel[1]), FMulDiv(inp.vel[2], BOTTOM_FRICTION, 100)>>
         IN  IF FLess(VLength(damped), MIN_VELOCITY_FINE)
             THEN [vel |-> <<damped[1], damped[2] + (inp.rand - 50) * 2>>,
                   perturbed |-> TRUE]
             ELSE [vel |-> damped, perturbed |-> FALSE]
    ELSE [vel |-> VScale(inp.vel, FRICTION, 100), perturbed |-> FALSE]

\* the velocity after the passes k..Len(hits) of the collision loop
RECURSIVE RestCollisions(_, _, _)
RestCollisions(newVel, hits, k) ==
    IF k > Len(hits) THEN newVel
    ELSE IF hits[k] = NoHit THEN RestCollisions(newVel, hits, k + 1)
    ELSE LET normal == hits[k]
             normalVel == VDot(newVel, normal)
             after == IF shaderVariant = "part_002"
                      THEN IF FLess(normalVel, 0)
                           THEN CollisionResponse(newVel, normal, normal)
                           ELSE newVel
                      ELSE IF FLess(0, normalVel)
                           THEN CollisionResponse(newVel, normal, VScale(normal, -1, 1))
                           ELSE newVel
         IN  RestCollisions(after, hits, k + 1)

\* what the fragment writes to gl_FragColor
storedVelocity(inp) ==
    LET start == IF shaderVariant = "part_002"
                 THEN [vel |-> inp.vel, perturbed |-> FALSE]
                 ELSE bottomHandling(inp)
        newVel == RestCollisions(start.vel, inp.hits, 1)
        atRest == /\ FLess(VLength(newVel), MIN_VELOCITY_FINE)
                  /\ (shaderVariant = "part_002" \/ ~inp.nearBottom)
    IN  [status |-> "stored",
         vel |-> IF atRest THEN <<0, 0>> ELSE newVel,
         perturbed |-> start.perturbed /\ ~atRest]

RestInit ==
    /\ shaderVariant \in {"part_002", "App"}
    /\ restIn \in [vel : RestVelocities, nearBottom : BOOLEAN, rand : RestRands,
                    hits : HitSequences(COLLISION_ITERATIONS)]
    /\ restOut = [status |-> "idle"]
    /\ gpu = [normalizeZero |-> "nan", nanTexel |-> "nan"]
    /\ sdfVolume = [size |-> 0] /\ seed = 0 /\ rotation = 0 /\ drags = 0
    /\ texturePosition = <<>> /\ textureVelocity = <<>>
    /\ nextPosition = <<>> /\ nextVelocity = <<>>
    /\ evaluated = {} /\ computing = FALSE /\ tick = 0 /\ deltaUniform = 0
    /\ vertexTexel = <<>> /\ faulted = -1
    /\ VoxelIdle /\ BuildIdle /\ AppIdle /\ EnvIdle
    /\ sizeArg = 1 /\ pcCreate = "idle" /\ bvhBuilt = FALSE /\ raysCast = 0
    /\ created = <<>>

\* the fragment runs to its end
StoreVelocity ==
    /\ restOut.status = "idle"
    /\ restOut' = storedVelocity(restIn)
    /\ UNCHANGED <<restIn, voxelVars, buildVars, simVars, appVars, createVars, envVars>>

RestNext == StoreVelocity

SpecRest == RestInit /\ [][RestNext]_vars

\* C27: a velocity stored with a speed below MIN_VELOCITY is exactly zero or
\* has received the anti-freeze perturbation
SlowIsZeroOrPerturbed ==
    (restOut.status = "stored" /\ FLess(VLength(restOut.vel), MIN_VELOCITY_FINE))
        => (restOut.vel = <<0, 0>> \/ restOut.perturbed)

\* the position texture the tick read, with texel i tagged inside
TaggedInside(i) == [nextPosition EXCEPT ![i].w = -1]

\* C28: the velocity kernel applies the same update whatever the tag of the
\* particle: the velocity stored for a particle tagged outside is the one the
\* kernel computes for it when it is tagged inside
TagBlindUpdate ==
    tick > 0 =>
        \A i \in Texels :
            nextPosition[i].w >= 0 =>
                textureVelocity[i] =
                    velocityShader(TaggedInside(i), nextVelocity, deltaUniform, rotation, i)

\* C29: once the cleanup of an effect run has run, its resumed init() acquires
\* nothing: it creates no GPUComputationRenderer (gpuComputeRef is not set to
\* one of that run), starts no generateSandParticles and adds no particles
AcquiresNothingAfterCleanup ==
    [][\A m \in Runs :
          canceled[m] =>
              /\ gpuComputeRef' = m => gpuComputeRef = m
              /\ sandAt'[m] = sandAt[m]
              /\ particles'[m] => particles[m]]_vars

\* ---------------------------------------------------------------------
\* The environment maps of one effect run: init() awaits the first map and
\* then loads the model; handleKeyDown is registered when the effect runs and
\* loads another map on every key of ENVIRONMENT_MAPS.  Textures are numbered
\* in the order their loads were started.
\* ---------------------------------------------------------------------

\* key presses of one behaviour
MaxKeys == 3

\* no frame rendered yet
NoFrame == [envMap |-> 0, disposed |-> FALSE, live |-> 0]

EnvInit ==
    /\ keys = 0
    /\ envLoads = {[texture |-> 1, by |-> "init"]}
    /\ nextTexture = 2
    /\ currentEnvMapRef = 0
    /\ disposedMaps = {}
    /\ environmentMap = 0
    /\ modelAt = "none"
    /\ meshEnvMap = 0
    /\ animating = FALSE
    /\ lastFrame = NoFrame
    /\ VoxelIdle /\ BuildIdle /\ SimIdle /\ AppIdle /\ RestIdle
    /\ sizeArg = 1 /\ pcCreate = "idle" /\ bvhBuilt = FALSE /\ raysCast = 0
    /\ created = <<>>

\* handleKeyDown up to its await: rendererRef and sceneRef are set, the key is
\* one of ENVIRONMENT_MAPS, loadEnvironment starts an EXRLoader.load
KeyDown ==
    /\ keys < MaxKeys
    /\ keys' = keys + 1
    /\ envLoads' = envLoads \cup {[texture |-> nextTexture, by |-> "key"]}
    /\ nextTexture' = nextTexture + 1
    /\ UNCHANGED <<currentEnvMapRef, disposedMaps, environmentMap, modelAt, meshEnvMap,
                   animating, lastFrame, voxelVars, buildVars, simVars, appVars,
                   createVars, restVars>>

\* the onLoad callback of exrLoader.load: the previous map is disposed, the new
\* one becomes current, and the awaiting caller resumes before any frame:
\* init() starts the model load and calls animate(), handleKeyDown sets the
\* envMap of every MeshPhysicalMaterial in the scene
EnvMapLoaded(l) ==
    /\ l \in envLoads
    /\ envLoads' = envLoads \ {l}
    /\ disposedMaps' = IF currentEnvMapRef # 0
                       THEN disposedMaps \cup {currentEnvMapRef}
                       ELSE disposedMaps
    /\ currentEnvMapRef' = l.texture
    /\ IF l.by = "init"
       THEN /\ environmentMap' = l.texture
            /\ modelAt' = "pending"
            /\ animating' = TRUE
            /\ UNCHANGED meshEnvMap
       ELSE /\ meshEnvMap' = IF modelAt = "loaded" THEN l.texture ELSE meshEnvMap
            /\ UNCHANGED <<environmentMap, modelAt, animating>>
    /\ UNCHANGED <<keys, nextTexture, lastFrame, voxelVars, buildVars, simVars, appVars,
                   createVars, restVars>>

\* the onError callback of exrLoader.load: the promise rejects; init() and
\* handleKeyDown log in their catch
EnvMapFailed(l) ==
    /\ l \in envLoads
    /\ envLoads' = envLoads \ {l}
    /\ UNCHANGED <<keys, nextTexture, currentEnvMapRef, disposedMaps, environmentMap,
                   modelAt, meshEnvMap, animating, lastFrame, voxelVars, buildVars,
                   simVars, appVars, createVars, restVars>>

\* the onLoad callback of gltfLoader.load: every mesh of the model gets a
\* MeshPhysicalMaterial with envMap: environmentMap
ModelLoaded ==
    /\ modelAt = "pending"
    /\ modelAt' = "loaded"
    /\ meshEnvMap' = environmentMap
    /\ UNCHANGED <<keys, envLoads, nextTexture, currentEnvMapRef, disposedMaps,
                   environmentMap, animating, lastFrame, voxelVars, buildVars, simVars,
                   appVars, createVars, restVars>>

\* renderer.render(scene, camera) in animate: the frame draws the glass with
\* the envMap of its material
RenderFrame ==
    /\ animating
    /\ lastFrame' = [envMap |-> meshEnvMap,
                     disposed |-> meshEnvMap \in disposedMaps,
                     live |-> currentEnvMapRef]
    /\ UNCHANGED <<keys, envLoads, nextTexture, currentEnvMapRef, disposedMaps,
                   environmentMap, modelAt, meshEnvMap, animating, voxelVars, buildVars,
                   simVars, appVars, createVars, restVars>>

EnvNext ==
    \/ KeyDown
    \/ \E l \in envLoads : EnvMapLoaded(l)
    \/ \E l \in envLoads : EnvMapFailed(l)
    \/ ModelLoaded
    \/ RenderFrame

SpecEnv == EnvInit /\ [][EnvNext]_vars

\* C30: at every rendered frame the glass material references no disposed
\* environment map: its envMap is the texture currentEnvMapRef holds
FrameUsesLiveEnvMap ==
    lastFrame.envMap # 0 =>
        (~lastFrame.disposed /\ lastFrame.envMap = lastFrame.live)

====
